---- MODULE Spec2Model ----
(***************************************************************************)
(* A model of the Axonius -> Elasticsearch pipeline:                       *)
(*   src/utils/formatter.py   field normalizers, record formatter, mapper  *)
(*   src/src/axoniusApi.py    AxoniusAPI.get_assets / get_all_assets       *)
(*   src/src/main.py          fetch stage, sink writer, main               *)
(*   src/utils/load_config.py ConfigLoader accessors                       *)
(*                                                                         *)
(* Python values are tagged records:                                       *)
(*   None   [t |-> "none"]                                                 *)
(*   str    [t |-> "str",  s |-> <<characters>>]                           *)
(*   number [t |-> "num",  n |-> Int]                                      *)
(*   list   [t |-> "list", l |-> <<values>>]                               *)
(*   dict   [t |-> "dict", d |-> [key |-> value]]                          *)
(* A string is the sequence of its characters, each a one-character TLA+   *)
(* string, so that strip, lower, re.sub and re.match are computed.         *)
(*                                                                         *)
(* Specifications:                                                         *)
(*   Spec         one run of AxoniusAPI.get_all_assets against a source    *)
(*                that answers each page request as it likes               *)
(*   SpecFair     Spec, where the loop keeps running until it has returned *)
(*   SpecMain     one run of main() against an environment fixed at start  *)
(*   SpecSink     one call of bulk_index_to_elasticsearch, step by step,   *)
(*                beside another process that may create the index         *)
(*   SpecWith     one `with AxoniusAPI(config)` statement whose body is a  *)
(*                run of get_all_assets                                    *)
(*   SpecRecords  one batch through format_axonius_data and then           *)
(*                transform_data_for_elasticsearch                         *)
(*   SpecIps      one call of normalize_ip_addresses                       *)
(*   SpecMacs     one call of normalize_mac_addresses                      *)
(*   SpecLastSeen format_last_seen_date called on a value and then on its  *)
(*                own result                                               *)
(*   SpecConfig   one call of a ConfigLoader accessor in an environment    *)
(***************************************************************************)
EXTENDS Integers, Sequences, FiniteSets, TLC

----------------------------------------------------------------------------
(* Python values *)

PyNone == [t |-> "none"]
PyStr(s) == [t |-> "str", s |-> s]
PyNum(n) == [t |-> "num", n |-> n]
PyList(l) == [t |-> "list", l |-> l]
PyDict(d) == [t |-> "dict", d |-> d]
EmptyDict == PyDict(<<>>)

\* bool(x): None, "", 0, [] and {} are false
Truthy(x) ==
    CASE x.t = "none" -> FALSE
      [] x.t = "str"  -> x.s # <<>>
      [] x.t = "num"  -> x.n # 0
      [] x.t = "list" -> x.l # <<>>
      [] x.t = "dict" -> DOMAIN x.d # {}

\* a or b
PyOr(a, b) == IF Truthy(a) THEN a ELSE b

\* d.get(k) and d.get(k, default) of a dict d
DictGet(x, k, default) == IF k \in DOMAIN x.d THEN x.d[k] ELSE default

----------------------------------------------------------------------------
(* Characters *)

Digits == <<"0", "1", "2", "3", "4", "5", "6", "7", "8", "9">>
UpperLetters ==
    <<"A", "B", "C", "D", "E", "F", "G", "H", "I", "J", "K", "L", "M",
      "N", "O", "P", "Q", "R", "S", "T", "U", "V", "W", "X", "Y", "Z">>
LowerLetters ==
    <<"a", "b", "c", "d", "e", "f", "g", "h", "i", "j", "k", "l", "m",
      "n", "o", "p", "q", "r", "s", "t", "u", "v", "w", "x", "y", "z">>
Range(f) == {f[i] : i \in DOMAIN f}
IsDigit(c) == c \in Range(Digits)
IsUpper(c) == c \in Range(UpperLetters)
IsLowerLetter(c) == c \in Range(LowerLetters)
\* \s of re, and what str.strip() removes: space, tab, newline
IsSpace(c) == c \in {" ", "\t", "\n"}
IsHexLower(c) == IsDigit(c) \/ c \in {"a", "b", "c", "d", "e", "f"}
IndexOf(c, seq) == CHOOSE i \in DOMAIN seq : seq[i] = c
DigitVal(c) == IndexOf(c, Digits) - 1
LowerChar(c) == IF IsUpper(c) THEN LowerLetters[IndexOf(c, UpperLetters)] ELSE c

\* str.lower()
Lower(s) == [i \in DOMAIN s |-> LowerChar(s[i])]

\* str.strip(): drop leading and trailing whitespace
RECURSIVE LStrip(_)
LStrip(s) == IF s # <<>> /\ IsSpace(Head(s)) THEN LStrip(Tail(s)) ELSE s
RECURSIVE RStrip(_)
RStrip(s) ==
    IF s # <<>> /\ IsSpace(s[Len(s)]) THEN RStrip(SubSeq(s, 1, Len(s) - 1)) ELSE s
Strip(s) == RStrip(LStrip(s))

----------------------------------------------------------------------------
(* Field normalizers (src/utils/formatter.py) *)

\* the class [a-zA-Z0-9\-\.] whose complement normalize_hostname removes
HostnameChar(c) == IsDigit(c) \/ IsUpper(c) \/ IsLowerLetter(c) \/ c \in {"-", "."}

\* mutant of CleanHostname: the case is kept
CleanHostname_NoLower(s) == SelectSeq(Strip(s), HostnameChar)

\* hostname.strip().lower(), then re.sub(r'[^a-zA-Z0-9\-\.]', '', hostname)
CleanHostname(s) == SelectSeq(Lower(Strip(s)), HostnameChar)

\* normalize_hostname: None for a false value, the first element of a list,
\* the cleaned string of a string (None when nothing is left), None otherwise
normalize_hostname(hostname) ==
    IF ~Truthy(hostname) THEN PyNone
    ELSE LET h == IF hostname.t = "list" THEN hostname.l[1] ELSE hostname
         IN  IF h.t = "str"
             THEN LET c == CleanHostname(h.s) IN IF c # <<>> THEN PyStr(c) ELSE PyNone
             ELSE PyNone

\* the parts of s between occurrences of sep
RECURSIVE SplitOn(_, _)
SplitOn(s, sep) ==
    IF \A i \in DOMAIN s : s[i] # sep THEN <<s>>
    ELSE LET k == CHOOSE i \in DOMAIN s : s[i] = sep /\ \A j \in 1..(i - 1) : s[j] # sep
         IN  <<SubSeq(s, 1, k - 1)>> \o SplitOn(SubSeq(s, k + 1, Len(s)), sep)

\* re.match(r'^(\d{1,3}\.){3}\d{1,3}$', ip) on a stripped string
MatchesIPv4(s) ==
    LET parts == SplitOn(s, ".")
    IN  /\ Len(parts) = 4
        /\ \A i \in 1..4 : /\ Len(parts[i]) \in 1..3
                           /\ \A j \in DOMAIN parts[i] : IsDigit(parts[i][j])

\* the list a normalizer walks: [] for a false value, [x] for a string,
\* the list itself, [] for any other type
AsList(data) ==
    IF ~Truthy(data) THEN <<>>
    ELSE IF data.t = "str" THEN <<data>>
    ELSE IF data.t = "list" THEN data.l
    ELSE <<>>

\* mutant of CleanIps: the addresses come out in reverse order
RECURSIVE CleanIps_Reversed(_)
CleanIps_Reversed(l) ==
    IF l = <<>> THEN <<>>
    ELSE CleanIps_Reversed(Tail(l))
         \o (IF Head(l).t = "str" /\ MatchesIPv4(Strip(Head(l).s)) THEN <<Strip(Head(l).s)>> ELSE <<>>)

\* the loop of normalize_ip_addresses over the elements
RECURSIVE CleanIps(_)
CleanIps(l) ==
    IF l = <<>> THEN <<>>
    ELSE LET ip == Head(l)
         IN  (IF ip.t = "str" /\ MatchesIPv4(Strip(ip.s)) THEN <<Strip(ip.s)>> ELSE <<>>)
             \o CleanIps(Tail(l))

normalize_ip_addresses(ip_data) == CleanIps(AsList(ip_data))

\* mutant of NotMacSeparator: only the colon is removed
NotMacSeparator_ColonOnly(c) == c # ":"

\* the class [:\-\s] that normalize_mac_addresses removes
NotMacSeparator(c) == ~(c \in {":", "-"} \/ IsSpace(c))

\* re.sub(r'[:\-\s]', '', mac.strip().lower())
CleanMac(s) == SelectSeq(Lower(Strip(s)), NotMacSeparator)

\* re.match(r'^[0-9a-f]{12}$', mac)
MatchesMac(s) == Len(s) = 12 /\ \A i \in DOMAIN s : IsHexLower(s[i])

\* ':'.join([mac[i:i+2] for i in range(0, 12, 2)])
FormatMac(s) ==
    [i \in 1..17 |-> IF i % 3 = 0 THEN ":" ELSE s[2 * (i \div 3) + (i % 3)]]

\* the loop of normalize_mac_addresses over the elements
RECURSIVE CleanMacs(_)
CleanMacs(l) ==
    IF l = <<>> THEN <<>>
    ELSE LET mac == Head(l)
         IN  (IF mac.t = "str" /\ MatchesMac(CleanMac(mac.s))
              THEN <<FormatMac(CleanMac(mac.s))>> ELSE <<>>)
             \o CleanMacs(Tail(l))

normalize_mac_addresses(mac_data) == CleanMacs(AsList(mac_data))

----------------------------------------------------------------------------
(* format_last_seen_date (src/utils/formatter.py) *)

\* int(s) of a string of digits, leading spaces ignored
RECURSIVE IntOf(_)
IntOf(s) ==
    IF s = <<>> THEN 0
    ELSE IF IsSpace(s[Len(s)]) THEN IntOf(SubSeq(s, 1, Len(s) - 1))
    ELSE 10 * IntOf(SubSeq(s, 1, Len(s) - 1)) + DigitVal(s[Len(s)])

AllDigits(s) == \A i \in DOMAIN s : IsDigit(s[i])

\* the regular expression strptime uses for each directive
\*   %Y \d\d\d\d    %m 1[0-2]|0[1-9]|[1-9]    %d 3[0-1]|[1-2]\d|0[1-9]|[1-9]| [1-9]
\*   %H 2[0-3]|[0-1]\d|\d    %M [0-5]\d|\d    %S 6[0-1]|[0-5]\d|\d    %f [0-9]{1,6}
DirectiveMatches(k, s) ==
    CASE k = "Y" -> Len(s) = 4 /\ AllDigits(s)
      [] k = "m" -> \/ Len(s) = 2 /\ AllDigits(s) /\ IntOf(s) \in 1..12
                    \/ Len(s) = 1 /\ AllDigits(s) /\ IntOf(s) \in 1..9
      [] k = "d" -> \/ Len(s) = 2 /\ AllDigits(s) /\ IntOf(s) \in 1..31
                    \/ Len(s) = 1 /\ AllDigits(s) /\ IntOf(s) \in 1..9
                    \/ Len(s) = 2 /\ s[1] = " " /\ IsDigit(s[2]) /\ DigitVal(s[2]) \in 1..9
      [] k = "H" -> \/ Len(s) = 2 /\ AllDigits(s) /\ IntOf(s) \in 0..23
                    \/ Len(s) = 1 /\ AllDigits(s)
      [] k = "M" -> \/ Len(s) = 2 /\ AllDigits(s) /\ IntOf(s) \in 0..59
                    \/ Len(s) = 1 /\ AllDigits(s)
      [] k = "S" -> \/ Len(s) = 2 /\ AllDigits(s) /\ IntOf(s) \in 0..61
                    \/ Len(s) = 1 /\ AllDigits(s)
      [] k = "f" -> Len(s) \in 1..6 /\ AllDigits(s)

\* %f is read as a fraction of a second: "5" is 500000 microseconds
RECURSIVE PadRightZeros(_, _)
PadRightZeros(s, n) == IF Len(s) >= n THEN s ELSE PadRightZeros(s \o <<"0">>, n)
DirectiveValue(k, s) == IF k = "f" THEN IntOf(PadRightZeros(s, 6)) ELSE IntOf(s)

\* a format is a sequence of tokens: a directive, a literal character (matched
\* ignoring case), or whitespace (\s+)
Dir(k) == [k |-> "dir", v |-> k]
Lit(c) == [k |-> "lit", v |-> c]
Ws == [k |-> "ws", v |-> " "]
NoFields == [Y |-> 1900, m |-> 1, d |-> 1, H |-> 0, M |-> 0, S |-> 0, f |-> 0]

\* the lengths n for which the first n characters of s match the token
TokenLengths(tk, s) ==
    CASE tk.k = "dir" -> {n \in 1..Len(s) : n <= 6 /\ DirectiveMatches(tk.v, SubSeq(s, 1, n))}
      [] tk.k = "lit" -> {n \in 1..Len(s) : n = 1 /\ LowerChar(s[1]) = LowerChar(tk.v)}
      [] tk.k = "ws"  -> {n \in 1..Len(s) : \A i \in 1..n : IsSpace(s[i])}

\* every way the whole of s matches the tokens, as the fields read
RECURSIVE ParseFrom(_, _, _)
ParseFrom(tokens, s, acc) ==
    IF tokens = <<>> THEN (IF s = <<>> THEN {acc} ELSE {})
    ELSE LET tk == Head(tokens)
         IN  UNION { ParseFrom(Tail(tokens), SubSeq(s, n + 1, Len(s)),
                               IF tk.k = "dir"
                               THEN [acc EXCEPT ![tk.v] = DirectiveValue(tk.v, SubSeq(s, 1, n))]
                               ELSE acc)
                     : n \in TokenLengths(tk, s) }

IsLeap(y) == (y % 4 = 0 /\ y % 100 # 0) \/ y % 400 = 0
DaysInMonth(y, m) ==
    IF m = 2 THEN (IF IsLeap(y) THEN 29 ELSE 28)
    ELSE IF m \in {4, 6, 9, 11} THEN 30 ELSE 31

\* datetime(...) accepts the fields: year 1..9999, a day of the month, second <= 59
ValidDatetime(dt) ==
    /\ dt.Y \in 1..9999
    /\ dt.d <= DaysInMonth(dt.Y, dt.m)
    /\ dt.S <= 59

\* datetime.strptime(s, format): the datetimes it can return (none: ValueError)
Strptime(s, tokens) == {dt \in ParseFrom(tokens, s, NoFields) : ValidDatetime(dt)}

\* date_formats, in the order they are tried
DateFormats ==
    << \* '%Y-%m-%dT%H:%M:%S.%fZ'
       <<Dir("Y"), Lit("-"), Dir("m"), Lit("-"), Dir("d"), Lit("T"), Dir("H"), Lit(":"),
         Dir("M"), Lit(":"), Dir("S"), Lit("."), Dir("f"), Lit("Z")>>,
       \* '%Y-%m-%dT%H:%M:%SZ'
       <<Dir("Y"), Lit("-"), Dir("m"), Lit("-"), Dir("d"), Lit("T"), Dir("H"), Lit(":"),
         Dir("M"), Lit(":"), Dir("S"), Lit("Z")>>,
       \* '%Y-%m-%d %H:%M:%S'
       <<Dir("Y"), Lit("-"), Dir("m"), Lit("-"), Dir("d"), Ws, Dir("H"), Lit(":"),
         Dir("M"), Lit(":"), Dir("S")>>,
       \* '%Y-%m-%d'
       <<Dir("Y"), Lit("-"), Dir("m"), Lit("-"), Dir("d")>>,
       \* '%m/%d/%Y %H:%M:%S'
       <<Dir("m"), Lit("/"), Dir("d"), Lit("/"), Dir("Y"), Ws, Dir("H"), Lit(":"),
         Dir("M"), Lit(":"), Dir("S")>>,
       \* '%d/%m/%Y %H:%M:%S'
       <<Dir("d"), Lit("/"), Dir("m"), Lit("/"), Dir("Y"), Ws, Dir("H"), Lit(":"),
         Dir("M"), Lit(":"), Dir("S")>> >>

\* str(n) of a natural number, and n zero-padded to w digits
RECURSIVE DigitsOf(_)
DigitsOf(n) == IF n < 10 THEN <<Digits[n + 1]>> ELSE DigitsOf(n \div 10) \o <<Digits[(n % 10) + 1]>>
RECURSIVE PadLeftZeros(_, _)
PadLeftZeros(s, w) == IF Len(s) >= w THEN s ELSE PadLeftZeros(<<"0">> \o s, w)
Padded(n, w) == PadLeftZeros(DigitsOf(n), w)

\* dt.strftime('%Y-%m-%dT%H:%M:%S.%fZ'). %Y is the C library's: glibc writes
\* the year 999 as "999", other builds as "0999" (pad_year)
Strftime(dt, pad_year) ==
    (IF pad_year THEN Padded(dt.Y, 4) ELSE DigitsOf(dt.Y)) \o <<"-">> \o Padded(dt.m, 2)
    \o <<"-">> \o Padded(dt.d, 2) \o <<"T">> \o Padded(dt.H, 2) \o <<":">> \o Padded(dt.M, 2)
    \o <<":">> \o Padded(dt.S, 2) \o <<".">> \o Padded(dt.f, 6) \o <<"Z">>

\* the civil date of a day number counted from 1970-01-01
CivilFromDays(days) ==
    LET z == days + 719468
        era == z \div 146097
        doe == z - era * 146097
        yoe == (doe - doe \div 1460 + doe \div 36524 - doe \div 146096) \div 365
        doy == doe - (365 * yoe + yoe \div 4 - yoe \div 100)
        mp == (5 * doy + 2) \div 153
        m == IF mp < 10 THEN mp + 3 ELSE mp - 9
    IN  [Y |-> yoe + era * 400 + (IF m <= 2 THEN 1 ELSE 0), m |-> m,
         d |-> doy - (153 * mp + 2) \div 5 + 1]

\* datetime.fromtimestamp(n): local time, utc_offset seconds east of UTC
FromTimestamp(n, utc_offset) ==
    LET t == n + utc_offset
        date == CivilFromDays(t \div 86400)
        secs == t % 86400
    IN  [Y |-> date.Y, m |-> date.m, d |-> date.d, H |-> secs \div 3600,
         M |-> (secs % 3600) \div 60, S |-> secs % 60, f |-> 0]

\* the loop over date_formats: the first format that parses decides
RECURSIVE TryFormats(_, _, _)
TryFormats(s, formats, pad_year) ==
    IF formats = <<>> THEN PyNone
    ELSE LET parsed == Strptime(s, Head(formats))
         IN  IF parsed # {} THEN PyStr(Strftime(CHOOSE dt \in parsed : TRUE, pad_year))
             ELSE TryFormats(s, Tail(formats), pad_year)

\* format_last_seen_date under a platform [pad_year, utc_offset]: None for a
\* false value, for a string no format parses, for a timestamp outside the
\* years 1..9999 (the exception is caught) and for any other type
RECURSIVE format_last_seen_date(_, _)
format_last_seen_date(x, pf) ==
    IF ~Truthy(x) THEN PyNone
    ELSE IF x.t = "str" THEN TryFormats(x.s, DateFormats, pf.pad_year)
    ELSE IF x.t = "num"
         THEN LET dt == FromTimestamp(x.n, pf.utc_offset)
              IN  IF dt.Y \in 1..9999 THEN PyStr(Strftime(dt, pf.pad_year)) ELSE PyNone
    ELSE IF x.t = "list" THEN format_last_seen_date(x.l[1], pf)
    ELSE PyNone

----------------------------------------------------------------------------
(* Record formatter and document mapper (src/utils/formatter.py) *)

\* the characters of the keys that are looked up with `in`
KeyChars(k) ==
    CASE k = "specific_data" -> <<"s", "p", "e", "c", "i", "f", "i", "c", "_", "d", "a", "t", "a">>
      [] k = "data" -> <<"d", "a", "t", "a">>
      [] k = "adapters_data" -> <<"a", "d", "a", "p", "t", "e", "r", "s", "_", "d", "a", "t", "a">>

IsSubstring(sub, s) ==
    \E i \in 0..(Len(s) - Len(sub)) : SubSeq(s, i + 1, i + Len(sub)) = sub

\* `k in x` raises TypeError for None and for a number
InRaises(x) == x.t \in {"none", "num"}
\* `k in x`: a key of a dict, an element of a list, a substring of a string
In(k, x) ==
    CASE x.t = "dict" -> k \in DOMAIN x.d
      [] x.t = "list" -> \E i \in DOMAIN x.l : x.l[i] = PyStr(KeyChars(k))
      [] x.t = "str"  -> IsSubstring(KeyChars(k), x.s)
      [] OTHER -> FALSE

Raise == [st |-> "raise", v |-> PyNone]
Absent == [st |-> "absent", v |-> PyNone]
Ok(v) == [st |-> "ok", v |-> v]

\* x[k] where `k in x` holds: the value of a dict, TypeError for a list or string
Subscript(x, k) == IF x.t = "dict" THEN Ok(x.d[k]) ELSE Raise

\* x.get(k, default): AttributeError unless x is a dict
Get(x, k, default) == IF x.t = "dict" THEN Ok(DictGet(x, k, default)) ELSE Raise

\* the guard `'specific_data' in asset and 'data' in asset['specific_data']`
\* followed by asset['specific_data']['data']: the data, absent, or an exception
SpecificData(asset) ==
    IF InRaises(asset) THEN Raise
    ELSE IF ~In("specific_data", asset) THEN Absent
    ELSE LET sd == Subscript(asset, "specific_data")
         IN  IF sd.st = "raise" \/ InRaises(sd.v) THEN Raise
             ELSE IF ~In("data", sd.v) THEN Absent
             ELSE Subscript(sd.v, "data")

\* data.get('network_interfaces', {}).get(key)
InterfaceField(data, key) ==
    LET ni == Get(data, "network_interfaces", EmptyDict)
    IN  IF ni.st = "raise" THEN Raise ELSE Get(ni.v, key, PyNone)

\* the fallback asset['adapters_data'].get('axonius_adapter', {}).get('last_seen'),
\* taken when the primary value is false and 'adapters_data' in asset
AdapterLastSeen(asset) ==
    LET ad == Subscript(asset, "adapters_data")
        aa == IF ad.st = "raise" THEN Raise ELSE Get(ad.v, "axonius_adapter", EmptyDict)
    IN  IF aa.st = "raise" THEN Raise ELSE Get(aa.v, "last_seen", PyNone)

\* mutant of RawLastSeen: the adapter is asked only when the primary is None
RawLastSeen_OnlyWhenAbsent(asset, primary) ==
    IF primary # PyNone THEN Ok(primary)
    ELSE IF InRaises(asset) THEN Raise
    ELSE IF In("adapters_data", asset) THEN AdapterLastSeen(asset)
    ELSE Ok(primary)

\* the raw last_seen of one asset: the primary value, or the adapter's
RawLastSeen(asset, primary) ==
    IF Truthy(primary) THEN Ok(primary)
    ELSE IF InRaises(asset) THEN Raise
    ELSE IF In("adapters_data", asset) THEN AdapterLastSeen(asset)
    ELSE Ok(primary)

\* the field extraction of one loop iteration of format_axonius_data: each
\* value read from the asset, or the exception raised on the way
Extracted(asset) ==
    LET sd == SpecificData(asset)
        prim == IF sd.st = "ok" THEN Get(sd.v, "last_seen", PyNone) ELSE Ok(PyNone)
    IN  [sd |-> sd,
         hn |-> IF sd.st = "ok" THEN Get(sd.v, "hostname", PyNone) ELSE Ok(PyNone),
         ips |-> IF sd.st = "ok" THEN InterfaceField(sd.v, "ips_preferred") ELSE Ok(PyNone),
         macs |-> IF sd.st = "ok" THEN InterfaceField(sd.v, "mac_preferred") ELSE Ok(PyNone),
         ls |-> IF prim.st = "raise" THEN Raise ELSE RawLastSeen(asset, prim.v)]

\* the try block of the iteration raises
FormatRaises(asset) ==
    LET x == Extracted(asset)
    IN  "raise" \in {x.sd.st, x.hn.st, x.ips.st, x.macs.st, x.ls.st}

\* one iteration of the loop of format_axonius_data: the records it appends
\* (one or none); an exception in the try block appends none
FormatOne(asset, pf) ==
    LET x == Extracted(asset)
    IN  IF FormatRaises(asset) THEN <<>>
        ELSE LET formatted_asset ==
                     [hostname |-> normalize_hostname(x.hn.v),
                      ip_addresses |-> IF x.sd.st = "ok" THEN normalize_ip_addresses(x.ips.v) ELSE <<>>,
                      mac_addresses |-> IF x.sd.st = "ok" THEN normalize_mac_addresses(x.macs.v) ELSE <<>>,
                      last_seen |-> format_last_seen_date(x.ls.v, pf)]
             IN  IF Truthy(formatted_asset.hostname) \/ formatted_asset.ip_addresses # <<>>
                 THEN <<formatted_asset>> ELSE <<>>

\* mutant of FormatAll: the loop ends at the first record that raises
RECURSIVE FormatAll_StopsAtError(_, _)
FormatAll_StopsAtError(raw_assets, pf) ==
    IF raw_assets = <<>> \/ FormatRaises(Head(raw_assets)) THEN <<>>
    ELSE FormatOne(Head(raw_assets), pf) \o FormatAll_StopsAtError(Tail(raw_assets), pf)

\* format_axonius_data(raw_assets)
RECURSIVE FormatAll(_, _)
FormatAll(raw_assets, pf) ==
    IF raw_assets = <<>> THEN <<>>
    ELSE FormatOne(Head(raw_assets), pf) \o FormatAll(Tail(raw_assets), pf)

format_axonius_data(raw_assets, pf) == FormatAll(raw_assets, pf)

\* mutant of TransformOne: ingestion_time is last_seen when there is one
TransformOne_IngestionFromLastSeen(asset, index_name, now) ==
    IF ~Truthy(asset.hostname) /\ asset.ip_addresses = <<>> THEN <<>>
    ELSE << [index |-> index_name,
             source |->
               [host |-> [ip |-> IF asset.ip_addresses # <<>>
                                 THEN PyStr(asset.ip_addresses[1]) ELSE PyNone,
                          mac |-> IF asset.mac_addresses # <<>>
                                  THEN PyStr(asset.mac_addresses[1]) ELSE PyNone,
                          hostname |-> asset.hostname],
                timestamp |-> PyOr(asset.last_seen, PyStr(now)),
                network |-> [ip_addresses |-> asset.ip_addresses,
                             mac_addresses |-> asset.mac_addresses],
                axonius |-> [last_seen |-> asset.last_seen,
                             ingestion_time |-> PyOr(asset.last_seen, PyStr(now))]]] >>

\* one iteration of the loop of transform_data_for_elasticsearch: the documents
\* it appends (one or none); now is datetime.utcnow() formatted
TransformOne(asset, index_name, now) ==
    IF ~Truthy(asset.hostname) /\ asset.ip_addresses = <<>> THEN <<>>
    ELSE << [index |-> index_name,
             source |->
               [host |-> [ip |-> IF asset.ip_addresses # <<>>
                                 THEN PyStr(asset.ip_addresses[1]) ELSE PyNone,
                          mac |-> IF asset.mac_addresses # <<>>
                                  THEN PyStr(asset.mac_addresses[1]) ELSE PyNone,
                          hostname |-> asset.hostname],
                timestamp |-> PyOr(asset.last_seen, PyStr(now)),
                network |-> [ip_addresses |-> asset.ip_addresses,
                             mac_addresses |-> asset.mac_addresses],
                axonius |-> [last_seen |-> asset.last_seen,
                             ingestion_time |-> PyStr(now)]]] >>

\* transform_data_for_elasticsearch(formatted_assets, index_name)
RECURSIVE transform_data_for_elasticsearch(_, _, _)
transform_data_for_elasticsearch(formatted_assets, index_name, now) ==
    IF formatted_assets = <<>> THEN <<>>
    ELSE TransformOne(Head(formatted_assets), index_name, now)
         \o transform_data_for_elasticsearch(Tail(formatted_assets), index_name, now)

----------------------------------------------------------------------------
(* Sample data *)

Chars_H1 == <<"H", "O", "S", "T", "-", "0", "1", " ">>
Chars_Ip == <<"1", "0", ".", "0", ".", "0", ".", "7">>

\* raw assets in the nested form format_axonius_data reads: one that formats
\* to a record (hostname "HOST-01 "), one with neither hostname nor IP, one
\* whose specific_data is null
NestedViable ==
    PyDict([specific_data |-> PyDict([data |-> PyDict([hostname |-> PyStr(Chars_H1)])])])
NestedEmpty == PyDict([specific_data |-> PyDict([data |-> EmptyDict])])
NestedMalformed == PyDict([specific_data |-> PyNone])
SourceAssets == {NestedViable, NestedEmpty, NestedMalformed}

\* the platform the formatter's strftime and fromtimestamp run on
DefaultPlatform == [pad_year |-> FALSE, utc_offset |-> 0]

----------------------------------------------------------------------------
(* AxoniusAPI.get_all_assets (src/src/axoniusApi.py) *)

\* bounds of the pagination runs
MaxBatch == 3
MaxCeiling == 5
MaxExtra == 1

\* the defaults of __init__ for batch_size and max_records
DefaultBatchSize == 100
DefaultMaxRecords == 1000

DefaultDeviceFields == <<"specific_data.data.hostname">>
DefaultUserFields == <<"specific_data.data.username">>
CallerFields == <<"specific_data.data.last_seen">>

VARIABLES
    api,         \* the AxoniusAPI object: batch_size, max_records, device_fields, user_fields
    args,        \* the arguments of get_all_assets: asset_type, fields, max_records
    all_assets,  \* the local all_assets
    offset,      \* the local offset
    pc,          \* "loop": at the while test; "returned": get_all_assets has returned
    requests,    \* the request parameters of every get_assets call so far
    pages,       \* the pages of assets received so far, one per successful non-empty fetch
    stop         \* why the loop ended: "none", "ceiling", "empty", "short", "error"

pagVars == <<api, args, all_assets, offset, pc, requests, pages, stop>>

\* the state of one run of main (src/src/main.py)
VARIABLES
    env,               \* what the run meets: see MainInit
    mainPc,            \* "Idle", "Fetching", "Mapping", "Ended"
    outcome,           \* "none", "Done", "Aborted", "Raised" (an exception left main)
    formatted_data,    \* the local formatted_data of main
    elasticsearch_docs,\* the local elasticsearch_docs of main
    fetch_ran,         \* get_and_format_axonius_data was called
    sink               \* what the sink writer did: invoked, ensured, created, bulk_called,
                       \* success_count, failed_count

mainVars == <<env, mainPc, outcome, formatted_data, elasticsearch_docs, fetch_ran, sink>>

\* the state of one call of bulk_index_to_elasticsearch (src/src/main.py) and
\* of the destination it writes to
VARIABLES
    sinkDocs,      \* the argument documents
    index_exists,  \* the destination holds the index
    sinkPc,        \* "start", "pinging", "ensuring", "creating", "writing", "returned"
    sinkResult,    \* the value returned: "none" until it returns, then "True" or "False"
    sinkLog        \* what the call did and was answered: ping ("none", "true", "false",
                   \* "raised"), exists ("none", "true", "false", "raised"), create
                   \* ("none", "created", "already_exists", "raised"), bulk_called,
                   \* bulk_raised, success_count, failed_count

sinkVars == <<sinkDocs, index_exists, sinkPc, sinkResult, sinkLog>>

\* the state of one `with AxoniusAPI(config) as api:` statement (src/src/axoniusApi.py)
VARIABLES
    session,       \* self.session: "none", "open", "closed"
    withPc,        \* "start", "body", "left"
    exit_called,   \* __exit__ was called
    propagating    \* an exception leaves the with statement

withVars == <<session, withPc, exit_called, propagating>>

\* the state of one pass of records through the record formatter and the
\* document mapper (src/utils/formatter.py)
VARIABLES
    rawBatch,        \* the argument of format_axonius_data
    formattedBatch,  \* its result, the argument of transform_data_for_elasticsearch
    mappedDocs,      \* the result of transform_data_for_elasticsearch
    recPc,             \* "raw", "formatted", "mapped"
    utcnow             \* what datetime.utcnow() formats to while the mapper runs

recVars == <<rawBatch, formattedBatch, mappedDocs, recPc, utcnow>>

\* the state of one call of a field normalizer (src/utils/formatter.py)
VARIABLES
    fnArg,     \* the argument
    fnResult,  \* the value returned
    fnPc       \* "call", "returned"

fnVars == <<fnArg, fnResult, fnPc>>

vars == <<api, args, all_assets, offset, pc, requests, pages, stop,
          env, mainPc, outcome, formatted_data, elasticsearch_docs, fetch_ran, sink,
          sinkDocs, index_exists, sinkPc, sinkResult, sinkLog,
          session, withPc, exit_called, propagating,
          rawBatch, formattedBatch, mappedDocs, recPc, utcnow,
          fnArg, fnResult, fnPc>>

\* everything but the variables of get_all_assets, of main
notPagVars == <<mainVars, sinkVars, withVars, recVars, fnVars>>
notMainVars == <<pagVars, sinkVars, withVars, recVars, fnVars>>

Min(a, b) == IF a < b THEN a ELSE b

\* the configured runs: every small batch size and ceiling, asked for through
\* the argument or through the configuration, and the run of the example
\* (batch size 100, ceiling 250)
ExampleApi ==
    [batch_size |-> DefaultBatchSize, max_records |-> 250,
     device_fields |-> DefaultDeviceFields, user_fields |-> DefaultUserFields]
ExampleArgs == [asset_type |-> "devices", fields |-> PyNone, max_records |-> PyNone]
Runs ==
    { <<[batch_size |-> b, max_records |-> IF byArg THEN DefaultMaxRecords ELSE c,
         device_fields |-> DefaultDeviceFields, user_fields |-> DefaultUserFields],
        [asset_type |-> call[1], fields |-> call[2],
         max_records |-> IF byArg THEN PyNum(c) ELSE PyNone]>>
      : b \in 1..MaxBatch, c \in 0..MaxCeiling, byArg \in BOOLEAN,
        call \in {<<"devices", PyNone>>, <<"users", PyList(CallerFields)>>,
                  <<"networks", PyNone>>} }
    \cup {<<ExampleApi, ExampleArgs>>}

\* max_records after `if max_records is None: max_records = self.max_records`
MaxRecords == IF args.max_records.t = "none" THEN api.max_records ELSE args.max_records.n

\* mutant of CurrentLimit: the batch size, whatever remains under the ceiling
CurrentLimit_IgnoresRemaining == api.batch_size

\* remaining and current_limit of the loop body
Remaining == MaxRecords - Len(all_assets)
CurrentLimit == Min(api.batch_size, Remaining)

\* the 'fields' get_assets sends: by the asset type, from the configuration
RequestFields(asset_type, fields) ==
    IF asset_type = "devices" THEN api.device_fields
    ELSE IF asset_type = "users" THEN api.user_fields
    ELSE <<>>

\* the params get_assets builds for its request
get_assets_params(asset_type, fields, limit, off) ==
    [asset_type |-> asset_type,
     fields |-> RequestFields(asset_type, fields),
     limit |-> IF limit.t = "none" THEN api.batch_size ELSE limit.n,
     offset |-> off]

\* the get_assets call of one loop iteration
SendRequest ==
    requests' = Append(requests,
                       get_assets_params(args.asset_type, args.fields, PyNum(CurrentLimit), offset))

\* mutant of Extend: the page goes through the record formatter first
Extend_Formatted(accumulated, assets) ==
    accumulated \o format_axonius_data(assets, DefaultPlatform)

\* mutant of Extend: the page is not kept
Extend_DropsPage(accumulated, assets) == accumulated

\* all_assets after `all_assets.extend(assets)`
Extend(accumulated, assets) == accumulated \o assets

\* mutant of AdvanceOffset: advance by the batch size, not by what was received
AdvanceOffset_ByBatchSize(off, assets) == off + api.batch_size

\* offset after `offset += len(assets)`
AdvanceOffset(off, assets) == off + Len(assets)

\* mutant of OnFetchError: no except clause, the exception leaves get_all_assets
OnFetchError_Propagates ==
    /\ pc' = "raised"
    /\ stop' = "error"
    /\ all_assets' = <<>>
    /\ UNCHANGED offset

\* the `except Exception` of the loop: log and break
OnFetchError ==
    /\ pc' = "returned"
    /\ stop' = "error"
    /\ UNCHANGED <<all_assets, offset>>

\* mutant of AfterExtend: the short-page test is missing
AfterExtend_NoShortPageTest(assets, limit) == pc' = "loop" /\ stop' = "none"

\* the test after extend: fewer assets than requested ends the loop
AfterExtend(assets, limit) ==
    IF Len(assets) < limit
    THEN pc' = "returned" /\ stop' = "short"
    ELSE pc' = "loop" /\ stop' = "none"

PagInit ==
    /\ \E run \in Runs : api = run[1] /\ args = run[2]
    /\ all_assets = <<>>
    /\ offset = 0
    /\ pc = "loop"
    /\ requests = <<>>
    /\ pages = <<>>
    /\ stop = "none"

\* the while test fails: return all_assets
LoopExit ==
    /\ pc = "loop"
    /\ ~(Len(all_assets) < MaxRecords)
    /\ pc' = "returned"
    /\ stop' = "ceiling"
    /\ UNCHANGED <<api, args, all_assets, offset, requests, pages>>
    /\ UNCHANGED notPagVars

\* an iteration whose get_assets raises (transport error, HTTP status, bad JSON)
FetchError ==
    /\ pc = "loop"
    /\ Len(all_assets) < MaxRecords
    /\ SendRequest
    /\ OnFetchError
    /\ UNCHANGED <<api, args, pages>>
    /\ UNCHANGED notPagVars

\* an iteration whose result has no assets: break
FetchEmpty ==
    /\ pc = "loop"
    /\ Len(all_assets) < MaxRecords
    /\ SendRequest
    /\ pc' = "returned"
    /\ stop' = "empty"
    /\ UNCHANGED <<api, args, all_assets, offset, pages>>
    /\ UNCHANGED notPagVars

\* an iteration whose result holds n >= 1 assets; the source may return fewer
\* than the limit, and up to MaxExtra more
FetchPage ==
    /\ pc = "loop"
    /\ Len(all_assets) < MaxRecords
    /\ \E n \in 1..(CurrentLimit + MaxExtra), a \in SourceAssets :
         LET assets == [i \in 1..n |-> a]
         IN  /\ SendRequest
             /\ all_assets' = Extend(all_assets, assets)
             /\ offset' = AdvanceOffset(offset, assets)
             /\ pages' = Append(pages, assets)
             /\ AfterExtend(assets, CurrentLimit)
    /\ UNCHANGED <<api, args>>
    /\ UNCHANGED notPagVars

----------------------------------------------------------------------------
(* The fetch stage, the sink writer and main (src/src/main.py) *)

\* bound of the assets one response of the source holds
MaxRaw == 2

\* transform_data_for_elasticsearch takes (formatted_assets, index_name);
\* main calls it with one positional argument
TransformParams == 2
TransformArgsPassed == 1

IndexName == "axonius-assets"
Now == <<"2", "0", "2", "6", "-", "0", "1", "-", "0", "1", "T", "0", "0", ":", "0", "0",
         ":", "0", "0", ".", "0", "0", "0", "0", "0", "0", "Z">>

\* raw assets in the flat form the fetch stage of main reads (dotted keys):
\* one with a hostname, one with an IP only, one with neither, and a null
K_hostname == "specific_data.data.hostname"
K_ips == "specific_data.data.network_interfaces.ips_preferred"
K_macs == "specific_data.data.network_interfaces.mac_preferred"
K_last_seen == "specific_data.data.last_seen"
K_adapter_last_seen == "adapters_data.axonius_adapter.last_seen"
FlatHost == PyDict(K_hostname :> PyStr(Chars_H1))
FlatIp == PyDict(K_ips :> PyList(<<PyStr(Chars_Ip)>>))
FlatEmpty == EmptyDict
FlatAssets == {FlatHost, FlatIp, FlatEmpty, PyNone}

RECURSIVE SeqsUpTo(_, _)
SeqsUpTo(S, n) ==
    IF n = 0 THEN {<<>>}
    ELSE LET shorter == SeqsUpTo(S, n - 1)
         IN  shorter \cup {Append(q, x) : q \in shorter, x \in S}

\* what the destination answers to the sink writer: ping ("ok", "false",
\* "raises"), indices.exists, indices.create ("ok", "raises"), and bulk
\* (raises, or returns with `failed` of the documents failed)
SinkAnswers ==
    { [ping |-> "false", exists |-> TRUE, create |-> "ok", bulk_raises |-> FALSE, failed |-> 0],
      [ping |-> "raises", exists |-> TRUE, create |-> "ok", bulk_raises |-> FALSE, failed |-> 0],
      [ping |-> "ok", exists |-> TRUE, create |-> "ok", bulk_raises |-> FALSE, failed |-> 0],
      [ping |-> "ok", exists |-> FALSE, create |-> "ok", bulk_raises |-> FALSE, failed |-> 1],
      [ping |-> "ok", exists |-> FALSE, create |-> "raises", bulk_raises |-> FALSE, failed |-> 0],
      [ping |-> "ok", exists |-> TRUE, create |-> "ok", bulk_raises |-> TRUE, failed |-> 0],
      [ping |-> "ok", exists |-> TRUE, create |-> "ok", bulk_raises |-> FALSE, failed |-> MaxRaw] }

SinkIdle ==
    [invoked |-> FALSE, ensured |-> FALSE, created |-> FALSE, bulk_called |-> FALSE,
     success_count |-> 0, failed_count |-> 0]

\* one iteration of the formatting loop of get_and_format_axonius_data: the
\* records it appends (asset.get raises for an asset that is no dict: none)
FormatFlatOne(asset, pf) ==
    IF asset.t # "dict" THEN <<>>
    ELSE << [hostname |-> normalize_hostname(DictGet(asset, K_hostname, PyNone)),
             ip_addresses |-> normalize_ip_addresses(DictGet(asset, K_ips, PyNone)),
             mac_addresses |-> normalize_mac_addresses(DictGet(asset, K_macs, PyNone)),
             last_seen |-> format_last_seen_date(PyOr(DictGet(asset, K_last_seen, PyNone),
                                               DictGet(asset, K_adapter_last_seen, PyNone)), pf),
             original |-> asset] >>

RECURSIVE FormatFlatAll(_, _)
FormatFlatAll(raw_assets, pf) ==
    IF raw_assets = <<>> THEN <<>>
    ELSE FormatFlatOne(Head(raw_assets), pf) \o FormatFlatAll(Tail(raw_assets), pf)

\* get_and_format_axonius_data(): [] when the discovery request fails or
\* reports has_succeeded false, or the assets request fails
get_and_format_axonius_data(e) ==
    IF e.discovery # "ready" THEN <<>>
    ELSE IF e.assets_error THEN <<>>
    ELSE FormatFlatAll(e.assets, e.platform)

\* create_index_if_not_exists(es_client): created, or raised by indices.create
create_index_if_not_exists(answers) ==
    IF ~answers.exists
    THEN [created |-> answers.create = "ok", raised |-> answers.create = "raises"]
    ELSE [created |-> FALSE, raised |-> FALSE]

\* the return value of bulk_index_to_elasticsearch once bulk() has returned
\* (success_count, failed_docs)
BulkResult(success_count, failed_count) == TRUE

\* bulk_index_to_elasticsearch(documents): the value returned and what was done
bulk_index_to_elasticsearch(documents, e) ==
    LET a == e.sink
        ensure == create_index_if_not_exists(a)
        failed == Min(a.failed, Len(documents))
    IN  IF documents = <<>> THEN [result |-> FALSE, did |-> SinkIdle]
        ELSE IF ~e.globals_bound \/ a.ping # "ok"
        THEN [result |-> FALSE, did |-> [SinkIdle EXCEPT !.invoked = TRUE]]
        ELSE IF ensure.raised
        THEN [result |-> FALSE, did |-> [SinkIdle EXCEPT !.invoked = TRUE, !.ensured = TRUE]]
        ELSE IF a.bulk_raises
        THEN [result |-> FALSE,
              did |-> [SinkIdle EXCEPT !.invoked = TRUE, !.ensured = TRUE,
                                       !.created = ensure.created, !.bulk_called = TRUE]]
        ELSE [result |-> BulkResult(Len(documents) - failed, failed),
              did |-> [invoked |-> TRUE, ensured |-> TRUE, created |-> ensure.created,
                       bulk_called |-> TRUE, success_count |-> Len(documents) - failed,
                       failed_count |-> failed]]

\* es_conn(): TRUE when it raises (ES_API_KEY unbound, or the client raises);
\* a failed ping is only logged
es_conn_raises(e) == ~e.globals_bound \/ e.es_conn = "raises"

\* the call transform_data_for_elasticsearch(formatted_data) of main raises
\* TypeError when the arguments passed are not the parameters required
TransformCallRaises == TransformArgsPassed # TransformParams

\* mutant of FetchedNothing: the empty test is missing
FetchedNothing_NoTest(data) == FALSE

\* `if not formatted_data: ... return`
FetchedNothing(data) == data = <<>>

\* `if not elasticsearch_docs: ... return`
MappedNothing(docs) == docs = <<>>

MainInit ==
    /\ env \in [globals_bound : BOOLEAN,
                es_conn : {"ok", "ping_false", "raises"},
                discovery : {"error", "not_ready", "ready"},
                assets_error : BOOLEAN,
                assets : SeqsUpTo(FlatAssets, MaxRaw),
                sink : SinkAnswers,
                platform : {DefaultPlatform}]
    /\ mainPc = "Idle"
    /\ outcome = "none"
    /\ formatted_data = <<>>
    /\ elasticsearch_docs = <<>>
    /\ fetch_ran = FALSE
    /\ sink = SinkIdle

\* main(): es_conn(); an exception is logged and raised again
MainEsConn ==
    /\ mainPc = "Idle"
    /\ IF es_conn_raises(env)
       THEN mainPc' = "Ended" /\ outcome' = "Raised"
       ELSE mainPc' = "Fetching" /\ outcome' = "none"
    /\ UNCHANGED <<env, formatted_data, elasticsearch_docs, fetch_ran, sink>>
    /\ UNCHANGED notMainVars

\* main(): step 1, and the return when nothing was retrieved
MainFetch ==
    /\ mainPc = "Fetching"
    /\ fetch_ran' = TRUE
    /\ formatted_data' = get_and_format_axonius_data(env)
    /\ IF FetchedNothing(formatted_data')
       THEN mainPc' = "Ended" /\ outcome' = "Aborted"
       ELSE mainPc' = "Mapping" /\ outcome' = "none"
    /\ UNCHANGED <<env, elasticsearch_docs, sink>>
    /\ UNCHANGED notMainVars

\* main(): steps 2 and 3
MainMapAndWrite ==
    /\ mainPc = "Mapping"
    /\ mainPc' = "Ended"
    /\ IF TransformCallRaises
       THEN /\ outcome' = "Raised"
            /\ UNCHANGED <<elasticsearch_docs, sink>>
       ELSE /\ elasticsearch_docs' = transform_data_for_elasticsearch(formatted_data, IndexName, Now)
            /\ IF MappedNothing(elasticsearch_docs')
               THEN outcome' = "Aborted" /\ UNCHANGED sink
               ELSE LET w == bulk_index_to_elasticsearch(elasticsearch_docs', env)
                    IN  /\ sink' = w.did
                        /\ outcome' = IF w.result THEN "Done" ELSE "Aborted"
    /\ UNCHANGED <<env, formatted_data, fetch_ran>>
    /\ UNCHANGED notMainVars

----------------------------------------------------------------------------
(* bulk_index_to_elasticsearch step by step, beside another writer of the
   destination (src/src/main.py) *)

\* bound of the documents handed to one call
MaxDocs == 4

SampleRecord ==
    [hostname |-> PyStr(CleanHostname(Chars_H1)), ip_addresses |-> <<Chars_Ip>>,
     mac_addresses |-> <<>>, last_seen |-> PyNone]
SampleDocument == TransformOne(SampleRecord, IndexName, Now)[1]

SinkLogIdle ==
    [ping |-> "none", exists |-> "none", create |-> "none",
     bulk_called |-> FALSE, bulk_raised |-> FALSE, success_count |-> 0, failed_count |-> 0]

SinkInit ==
    /\ sinkDocs \in {[i \in 1..n |-> SampleDocument] : n \in 0..MaxDocs}
    /\ index_exists \in BOOLEAN
    /\ sinkPc = "start"
    /\ sinkResult = "none"
    /\ sinkLog = SinkLogIdle

\* `return True` / `return False`, as the strings of sinkResult
Returns(b) == sinkPc' = "returned" /\ sinkResult' = IF b THEN "True" ELSE "False"

\* the `except Exception` of bulk_index_to_elasticsearch: log, return False
OnSinkException == Returns(FALSE)

\* `if not documents: ... return False`
SinkNoDocuments ==
    /\ sinkPc = "start"
    /\ sinkDocs = <<>>
    /\ Returns(FALSE)
    /\ UNCHANGED <<sinkDocs, index_exists, sinkLog>>
    /\ UNCHANGED <<pagVars, mainVars, withVars, recVars, fnVars>>

\* Elasticsearch(**ELASTICSEARCH_CONFIG) or es_client.ping() raises
SinkPingRaises ==
    /\ sinkPc = "start"
    /\ sinkDocs # <<>>
    /\ OnSinkException
    /\ sinkLog' = [sinkLog EXCEPT !.ping = "raised"]
    /\ UNCHANGED <<sinkDocs, index_exists>>
    /\ UNCHANGED <<pagVars, mainVars, withVars, recVars, fnVars>>

\* es_client.ping() is false: return False
SinkPingFalse ==
    /\ sinkPc = "start"
    /\ sinkDocs # <<>>
    /\ Returns(FALSE)
    /\ sinkLog' = [sinkLog EXCEPT !.ping = "false"]
    /\ UNCHANGED <<sinkDocs, index_exists>>
    /\ UNCHANGED <<pagVars, mainVars, withVars, recVars, fnVars>>

\* es_client.ping() is true: go on to create_index_if_not_exists
SinkPingOk ==
    /\ sinkPc = "start"
    /\ sinkDocs # <<>>
    /\ sinkPc' = "ensuring"
    /\ sinkLog' = [sinkLog EXCEPT !.ping = "true"]
    /\ UNCHANGED <<sinkDocs, index_exists, sinkResult>>
    /\ UNCHANGED <<pagVars, mainVars, withVars, recVars, fnVars>>

\* create_index_if_not_exists: es_client.indices.exists(index=INDEX_NAME) answers
\* by the destination's state; true skips the create
SinkExistsCheck ==
    /\ sinkPc = "ensuring"
    /\ sinkPc' = IF index_exists THEN "writing" ELSE "creating"
    /\ sinkLog' = [sinkLog EXCEPT !.exists = IF index_exists THEN "true" ELSE "false"]
    /\ UNCHANGED <<sinkDocs, index_exists, sinkResult>>
    /\ UNCHANGED <<pagVars, mainVars, withVars, recVars, fnVars>>

\* es_client.indices.exists raises (a transport error)
SinkExistsRaises ==
    /\ sinkPc = "ensuring"
    /\ OnSinkException
    /\ sinkLog' = [sinkLog EXCEPT !.exists = "raised"]
    /\ UNCHANGED <<sinkDocs, index_exists>>
    /\ UNCHANGED <<pagVars, mainVars, withVars, recVars, fnVars>>

\* es_client.indices.create raises before the destination has the index
\* (a transport error)
SinkCreateRaises ==
    /\ sinkPc = "creating"
    /\ ~index_exists
    /\ OnSinkException
    /\ sinkLog' = [sinkLog EXCEPT !.create = "raised"]
    /\ UNCHANGED <<sinkDocs, index_exists>>
    /\ UNCHANGED <<pagVars, mainVars, withVars, recVars, fnVars>>

\* another process creates the index while this call runs
OtherProcessCreates ==
    /\ sinkPc \in {"start", "ensuring", "creating"}
    /\ ~index_exists
    /\ index_exists' = TRUE
    /\ UNCHANGED <<sinkDocs, sinkPc, sinkResult, sinkLog>>
    /\ UNCHANGED <<pagVars, mainVars, withVars, recVars, fnVars>>

\* es_client.indices.create on an index that exists raises (the destination
\* answers 400 resource_already_exists_exception); create_index_if_not_exists
\* has no handler, so the exception reaches the handler of the caller
OnCreateAlreadyExists == OnSinkException

\* create_index_if_not_exists: es_client.indices.create(index=INDEX_NAME, body=mapping)
SinkCreate ==
    /\ sinkPc = "creating"
    /\ IF index_exists
       THEN /\ OnCreateAlreadyExists
            /\ sinkLog' = [sinkLog EXCEPT !.create = "already_exists"]
            /\ UNCHANGED index_exists
       ELSE /\ index_exists' = TRUE
            /\ sinkPc' = "writing"
            /\ sinkLog' = [sinkLog EXCEPT !.create = "created"]
            /\ UNCHANGED sinkResult
    /\ UNCHANGED sinkDocs
    /\ UNCHANGED <<pagVars, mainVars, withVars, recVars, fnVars>>

\* bulk(...) returns (success_count, failed_docs): the failures are logged and
\* the call returns True
SinkBulkReturns ==
    /\ sinkPc = "writing"
    /\ \E failed \in 0..Len(sinkDocs) :
         /\ sinkLog' = [sinkLog EXCEPT !.bulk_called = TRUE,
                                       !.success_count = Len(sinkDocs) - failed,
                                       !.failed_count = failed]
         /\ Returns(BulkResult(Len(sinkDocs) - failed, failed))
    /\ UNCHANGED <<sinkDocs, index_exists>>
    /\ UNCHANGED <<pagVars, mainVars, withVars, recVars, fnVars>>

\* bulk(...) raises after the destination has indexed some of the documents
\* (a transport error, or the helper's error for documents that failed)
SinkBulkRaises ==
    /\ sinkPc = "writing"
    /\ \E indexed \in 0..Len(sinkDocs) :
         sinkLog' = [sinkLog EXCEPT !.bulk_called = TRUE, !.bulk_raised = TRUE,
                                    !.success_count = indexed,
                                    !.failed_count = Len(sinkDocs) - indexed]
    /\ OnSinkException
    /\ UNCHANGED <<sinkDocs, index_exists>>
    /\ UNCHANGED <<pagVars, mainVars, withVars, recVars, fnVars>>

----------------------------------------------------------------------------
(* The context manager of AxoniusAPI (src/src/axoniusApi.py). The body of the
   with statement is a run of get_all_assets. *)

WithInit ==
    /\ session = "none"
    /\ withPc = "start"
    /\ exit_called = FALSE
    /\ propagating = FALSE

\* __exit__: close the session if there is one; it returns False, so an
\* exception of the body goes on
Exit ==
    /\ session' = IF session # "none" THEN "closed" ELSE session
    /\ exit_called' = TRUE

\* __enter__ returns self: the session is made and the discovery request succeeds
EnterReturns ==
    /\ withPc = "start"
    /\ session' = "open"
    /\ withPc' = "body"
    /\ UNCHANGED <<exit_called, propagating>>
    /\ UNCHANGED <<pagVars, mainVars, sinkVars, recVars, fnVars>>

\* __enter__ raises: the session is made, the discovery request fails and the
\* exception is raised again. The with statement calls __exit__ only once
\* __enter__ has returned, so nothing closes the session.
EnterRaises ==
    /\ withPc = "start"
    /\ session' = "open"
    /\ withPc' = "left"
    /\ propagating' = TRUE
    /\ UNCHANGED exit_called
    /\ UNCHANGED <<pagVars, mainVars, sinkVars, recVars, fnVars>>

\* a step of the body: get_all_assets
BodyStep ==
    /\ withPc = "body"
    /\ (LoopExit \/ FetchError \/ FetchEmpty \/ FetchPage)

\* the body raises: __exit__ runs and the exception goes on
BodyRaises ==
    /\ withPc = "body"
    /\ Exit
    /\ withPc' = "left"
    /\ propagating' = TRUE
    /\ UNCHANGED <<pagVars, mainVars, sinkVars, recVars, fnVars>>

\* the body ends: __exit__ runs
BodyEnds ==
    /\ withPc = "body"
    /\ pc = "returned"
    /\ Exit
    /\ withPc' = "left"
    /\ UNCHANGED propagating
    /\ UNCHANGED <<pagVars, mainVars, sinkVars, recVars, fnVars>>

----------------------------------------------------------------------------
(* One pass of records through format_axonius_data and
   transform_data_for_elasticsearch (src/utils/formatter.py) *)

\* bound of the records of one pass
MaxRecs == 2

Chars_Date1 == <<"2", "0", "2", "4", "-", "0", "1", "-", "0", "2">>
Chars_Date2 == <<"2", "0", "2", "3", "-", "0", "5", "-", "0", "6">>
Chars_Garbage == <<"s", "o", "o", "n">>
Later == <<"2", "0", "2", "6", "-", "0", "1", "-", "0", "1", "T", "0", "0", ":", "0", "0",
           ":", "0", "1", ".", "0", "0", "0", "0", "0", "0", "Z">>

\* a raw asset with a hostname, the fields `more` beside it under
\* specific_data.data, and last_seen `adapter` under adapters_data.axonius_adapter
RawWith(more, adapter) ==
    PyDict([specific_data |-> PyDict([data |-> PyDict(more @@ [hostname |-> PyStr(Chars_H1)])]),
            adapters_data |-> PyDict([axonius_adapter |-> PyDict([last_seen |-> adapter])])])

\* raw assets by what the primary path holds for last_seen: a date, nothing,
\* null, the empty string, zero, a string no format parses
RawPrimaryDate == RawWith([last_seen |-> PyStr(Chars_Date1)], PyStr(Chars_Date2))
RawPrimaryAbsent == RawWith(<<>>, PyStr(Chars_Date2))
RawPrimaryNull == RawWith([last_seen |-> PyNone], PyStr(Chars_Date2))
RawPrimaryEmpty == RawWith([last_seen |-> PyStr(<<>>)], PyStr(Chars_Date2))
RawPrimaryZero == RawWith([last_seen |-> PyNum(0)], PyStr(Chars_Date2))
RawPrimaryGarbage == RawWith([last_seen |-> PyStr(Chars_Garbage)], PyStr(Chars_Date2))

\* raw assets whose field extraction raises: network_interfaces is a string,
\* adapters_data is null
RawBadInterfaces ==
    PyDict([specific_data |->
              PyDict([data |-> PyDict([hostname |-> PyStr(Chars_H1),
                                       network_interfaces |-> PyStr(Chars_Ip)])])])
RawBadAdapters ==
    PyDict([specific_data |-> PyDict([data |-> PyDict([hostname |-> PyStr(Chars_H1)])]),
            adapters_data |-> PyNone])

\* a raw asset with an IP address and no hostname
RawIpOnly ==
    PyDict([specific_data |->
              PyDict([data |-> PyDict([network_interfaces |->
                                         PyDict([ips_preferred |-> PyList(<<PyStr(Chars_Ip)>>)])])])])

RawSamples ==
    {NestedViable, NestedEmpty, NestedMalformed, RawIpOnly, RawBadInterfaces, RawBadAdapters,
     RawPrimaryDate, RawPrimaryAbsent, RawPrimaryNull, RawPrimaryEmpty, RawPrimaryZero,
     RawPrimaryGarbage}

\* canonical records handed to the mapper directly: the hostname "HOST-01 "
\* and no IP, an IP and a last_seen, neither hostname nor IP
CanonUpperHost ==
    [hostname |-> PyStr(Chars_H1), ip_addresses |-> <<>>, mac_addresses |-> <<>>,
     last_seen |-> PyNone]
CanonSeen ==
    [hostname |-> PyNone, ip_addresses |-> <<Chars_Ip>>, mac_addresses |-> <<>>,
     last_seen |-> format_last_seen_date(PyStr(Chars_Date1), DefaultPlatform)]
CanonNotViable ==
    [hostname |-> PyNone, ip_addresses |-> <<>>, mac_addresses |-> <<>>,
     last_seen |-> PyNone]
CanonSamples == {CanonUpperHost, CanonSeen, CanonNotViable}

RecInit ==
    /\ \/ /\ recPc = "raw"
          /\ rawBatch \in SeqsUpTo(RawSamples, MaxRecs)
          /\ formattedBatch = <<>>
       \/ /\ recPc = "formatted"
          /\ rawBatch = <<>>
          /\ formattedBatch \in SeqsUpTo(CanonSamples, MaxRecs)
    /\ mappedDocs = <<>>
    /\ utcnow \in {Now, Later}

\* formatted_assets = format_axonius_data(raw_assets)
FormatRecords ==
    /\ recPc = "raw"
    /\ formattedBatch' = format_axonius_data(rawBatch, DefaultPlatform)
    /\ recPc' = "formatted"
    /\ UNCHANGED <<rawBatch, mappedDocs, utcnow>>
    /\ UNCHANGED <<pagVars, mainVars, sinkVars, withVars, fnVars>>

\* documents = transform_data_for_elasticsearch(formatted_assets, index_name);
\* the readings of the clock within the call are taken as one instant
MapRecords ==
    /\ recPc = "formatted"
    /\ mappedDocs' = transform_data_for_elasticsearch(formattedBatch, IndexName, utcnow)
    /\ recPc' = "mapped"
    /\ UNCHANGED <<rawBatch, formattedBatch, utcnow>>
    /\ UNCHANGED <<pagVars, mainVars, sinkVars, withVars, fnVars>>

----------------------------------------------------------------------------
(* One call of normalize_ip_addresses, of normalize_mac_addresses
   (src/utils/formatter.py) *)

\* bound of the list handed to normalize_ip_addresses
MaxIpList == 2

Chars_Ip2 == <<"1", ".", "2", ".", "3", ".", "4">>
Chars_IpPadded == <<" ", "1", "0", ".", "0", ".", "0", ".", "7", "\t">>
Chars_Ip999 == <<"9", "9", "9", ".", "9", "9", "9", ".", "9", "9", "9", ".", "9", "9", "9">>
Chars_Ip3Parts == <<"1", ".", "2", ".", "3">>
Chars_Ip5Parts == <<"1", ".", "2", ".", "3", ".", "4", ".", "5">>
Chars_Ip4Digits == <<"1", "2", "3", "4", ".", "1", ".", "1", ".", "1">>
Chars_IpLetters == <<"a", ".", "b", ".", "c", ".", "d">>

\* the elements of a list of addresses: strings that match after trimming,
\* strings that do not, and values that are no strings
IpElements ==
    {PyStr(Chars_Ip), PyStr(Chars_Ip2), PyStr(Chars_IpPadded), PyStr(Chars_Ip999),
     PyStr(Chars_Ip3Parts), PyStr(Chars_Ip5Parts), PyStr(Chars_Ip4Digits),
     PyStr(Chars_IpLetters), PyStr(<<>>), PyNum(7), PyNone}

IpInputs ==
    {PyList(l) : l \in SeqsUpTo(IpElements, MaxIpList)}
    \cup {PyStr(Chars_Ip), PyStr(Chars_IpPadded), PyStr(Chars_IpLetters), PyStr(<<>>)}
    \cup {PyNone, PyNum(7), PyDict([ip |-> PyStr(Chars_Ip)])}

IpInit ==
    /\ fnArg \in IpInputs
    /\ fnResult = <<>>
    /\ fnPc = "call"

\* fnResult = normalize_ip_addresses(fnArg)
CallNormalizeIps ==
    /\ fnPc = "call"
    /\ fnResult' = normalize_ip_addresses(fnArg)
    /\ fnPc' = "returned"
    /\ UNCHANGED fnArg
    /\ UNCHANGED <<pagVars, mainVars, sinkVars, withVars, recVars>>

\* bound of the separators put into twelve digits
MaxSeps == 2

\* digits of a MAC address: lowercase, the same in uppercase, eleven digits,
\* twelve with a letter that is no hexadecimal digit
Chars_MacLower == <<"0", "0", "1", "a", "2", "b", "3", "c", "4", "d", "5", "e">>
Chars_MacUpper == <<"0", "0", "1", "A", "2", "B", "3", "C", "4", "D", "5", "E">>
Chars_Mac11 == <<"0", "0", "1", "a", "2", "b", "3", "c", "4", "d", "5">>
Chars_MacNotHex == <<"0", "0", "1", "a", "2", "b", "3", "c", "4", "d", "5", "g">>
MacDigits == {Chars_MacLower, Chars_MacUpper, Chars_Mac11, Chars_MacNotHex}
MacSeparators == {":", "-", " "}

InsertAt(s, p, c) == SubSeq(s, 1, p) \o <<c>> \o SubSeq(s, p + 1, Len(s))

\* s with up to k separators put in at any places
RECURSIVE WithSeparators(_, _)
WithSeparators(s, k) ==
    IF k = 0 THEN {s}
    ELSE LET fewer == WithSeparators(s, k - 1)
         IN  fewer \cup UNION {{InsertAt(x, p, c) : p \in 0..Len(x), c \in MacSeparators}
                                 : x \in fewer}

\* s with the separator c after every n-th character but the last
RECURSIVE Grouped(_, _, _)
Grouped(s, n, c) ==
    IF Len(s) <= n THEN s
    ELSE SubSeq(s, 1, n) \o <<c>> \o Grouped(SubSeq(s, n + 1, Len(s)), n, c)

MacStrings ==
    UNION {WithSeparators(d, MaxSeps) : d \in MacDigits}
    \cup {Grouped(d, 2, c) : d \in MacDigits, c \in {":", "-", " ", "."}}
    \cup {Grouped(d, 4, c) : d \in MacDigits, c \in {"-", "."}}

MacInputs == {PyStr(m) : m \in MacStrings} \cup {PyNone, PyNum(7)}

MacInit ==
    /\ fnArg \in MacInputs
    /\ fnResult = <<>>
    /\ fnPc = "call"

\* fnResult = normalize_mac_addresses(fnArg)
CallNormalizeMacs ==
    /\ fnPc = "call"
    /\ fnResult' = normalize_mac_addresses(fnArg)
    /\ fnPc' = "returned"
    /\ UNCHANGED fnArg
    /\ UNCHANGED <<pagVars, mainVars, sinkVars, withVars, recVars>>

----------------------------------------------------------------------------
(* Two calls of format_last_seen_date, the second on the value the first
   returned (src/utils/formatter.py). fnArg is the argument together with
   the platform the interpreter runs on; fnResult is the sequence of the
   values returned so far. *)

\* bound of the Unix timestamps handed to format_last_seen_date
MaxEpoch == 3

\* the C library's strftime pads %Y or does not; local time is UTC or UTC+1
Platforms == [pad_year : BOOLEAN, utc_offset : {0, 3600}]

Chars_Years == {<<"2", "0", "2", "4">>, <<"0", "9", "9", "9">>, <<"1", "0", "0", "0">>}
Chars_Months == {<<"0", "1">>, <<"2">>, <<"1", "3">>}
Chars_Days == {<<"0", "1">>, <<"3", "1">>}
Chars_Time == <<"0", "3", ":", "0", "4", ":", "0", "5">>

\* a date written in each of the six shapes of date_formats
DateStrings(y, m, d) ==
    { y \o <<"-">> \o m \o <<"-">> \o d \o <<"T">> \o Chars_Time \o <<".", "5", "Z">>,
      y \o <<"-">> \o m \o <<"-">> \o d \o <<"T">> \o Chars_Time \o <<"Z">>,
      y \o <<"-">> \o m \o <<"-">> \o d \o <<" ">> \o Chars_Time,
      y \o <<"-">> \o m \o <<"-">> \o d,
      m \o <<"/">> \o d \o <<"/">> \o y \o <<" ">> \o Chars_Time,
      d \o <<"/">> \o m \o <<"/">> \o y \o <<" ">> \o Chars_Time }

LastSeenStrings ==
    UNION {DateStrings(y, m, d) : y \in Chars_Years, m \in Chars_Months, d \in Chars_Days}

LastSeenValues ==
    {PyStr(s) : s \in LastSeenStrings}
    \cup {PyNum(n * 86399) : n \in 0..MaxEpoch}
    \cup {PyList(<<PyStr(Chars_Date1), PyStr(Chars_Garbage)>>), PyList(<<PyNum(86399)>>),
          PyList(<<PyStr(Chars_Garbage), PyStr(Chars_Date1)>>), PyList(<<>>)}
    \cup {PyStr(Chars_Garbage), PyStr(<<>>), PyNone, PyDict([last_seen |-> PyStr(Chars_Date1)])}

LastSeenInit ==
    /\ fnArg \in [value : LastSeenValues, platform : Platforms]
    /\ fnResult = <<>>
    /\ fnPc = "call"

\* first = format_last_seen_date(value)
CallFormatLastSeen ==
    /\ fnPc = "call"
    /\ fnResult' = <<format_last_seen_date(fnArg.value, fnArg.platform)>>
    /\ fnPc' = "returned"
    /\ UNCHANGED fnArg
    /\ UNCHANGED <<pagVars, mainVars, sinkVars, withVars, recVars>>

\* second = format_last_seen_date(first)
CallFormatLastSeenAgain ==
    /\ fnPc = "returned"
    /\ fnResult' = Append(fnResult, format_last_seen_date(fnResult[1], fnArg.platform))
    /\ fnPc' = "again"
    /\ UNCHANGED fnArg
    /\ UNCHANGED <<pagVars, mainVars, sinkVars, withVars, recVars>>

----------------------------------------------------------------------------
(* ConfigLoader (src/utils/load_config.py): one call of get_env_var, of
   get_axonius_config or of get_elasticsearch_config. fnArg is the process
   environment and the YAML data loaded before; fnResult is the call made
   and what came of it. *)

Chars_Placeholder == <<"N", "O", "T", "S", "E", "T", "Y", "E", "T">>
Chars_Secret == <<"k", "3", "y">>
Chars_Url == <<"h", "t", "t", "p", "s", ":", "/", "/", "e", "s">>
Chars_Index == <<"a", "s", "s", "e", "t", "s">>

\* the variables read with required=True
SecretNames == {"AX_API_KEY", "AX_API_SECRET", "ES_API_KEY", "ES_CLOUD_ID"}

\* os.environ: a variable is unset (os.getenv gives None) or set to a string
EnvValues == {PyNone, PyStr(<<>>), PyStr(Chars_Placeholder), PyStr(Chars_Secret)}
Environs == [SecretNames -> EnvValues]

\* config_data as load_yaml_config leaves it: an empty file, a complete one,
\* one without ES_INDEX
YamlEmpty == PyDict(<<>>)
YamlComplete ==
    PyDict([ES_URL |-> PyStr(Chars_Url), ES_INDEX |-> PyStr(Chars_Index),
            AX_INSTANCE_URL |-> PyStr(Chars_Url),
            AX_DEVICE_FIELDS |-> PyList(<<K_hostname>>), BATCH_SIZE |-> PyNum(50)])
YamlNoIndex == PyDict([ES_URL |-> PyStr(Chars_Url), AX_INSTANCE_URL |-> PyStr(Chars_Url)])
YamlData == {YamlEmpty, YamlComplete, YamlNoIndex}

\* raise ValueError(message), the message naming a variable or a field
ValueError(message, name) == [st |-> "raise", v |-> [message |-> message, name |-> name]]

\* get_env_var without the test of the placeholder
get_env_var_PlaceholderAccepted(environ, var_name, default, required) ==
    LET value == IF environ[var_name] = PyNone THEN default ELSE environ[var_name]
    IN  IF required /\ (value = PyNone \/ value = PyStr(<<>>))
        THEN ValueError("Required environment variable is not set", var_name)
        ELSE Ok(value)

\* get_env_var(var_name, default, required) in an environment
get_env_var(environ, var_name, default, required) ==
    LET value == IF environ[var_name] = PyNone THEN default ELSE environ[var_name]
    IN  IF required /\ (value = PyNone \/ value = PyStr(<<>>))
        THEN ValueError("Required environment variable is not set", var_name)
        ELSE IF value = PyStr(Chars_Placeholder)
             THEN (IF required
                   THEN ValueError("Environment variable needs to be configured", var_name)
                   ELSE Ok(PyNone))
        ELSE Ok(value)

\* the first of the required fields whose value is false, if any
MissingFields(config, required_fields) ==
    SelectSeq(required_fields, LAMBDA field : ~Truthy(config[field]))

\* the device fields used when the YAML data names none
FallbackDeviceFields ==
    PyList(<<K_hostname, K_ips, K_macs, K_last_seen, K_adapter_last_seen>>)

\* get_axonius_config(): the dictionary, or the exception raised
get_axonius_config(environ, config_data) ==
    LET api_key == get_env_var(environ, "AX_API_KEY", PyNone, TRUE)
        api_secret == get_env_var(environ, "AX_API_SECRET", PyNone, TRUE)
    IN  IF api_key.st = "raise" THEN api_key
        ELSE IF api_secret.st = "raise" THEN api_secret
        ELSE LET ax_config ==
                     [instance_url |-> DictGet(config_data, "AX_INSTANCE_URL", PyNone),
                      device_fields |-> DictGet(config_data, "AX_DEVICE_FIELDS", PyList(<<>>)),
                      user_fields |-> DictGet(config_data, "AX_USER_FIELDS", PyList(<<>>)),
                      batch_size |-> DictGet(config_data, "BATCH_SIZE", PyNum(100)),
                      max_records |-> DictGet(config_data, "MAX_RECORDS", PyNum(1000)),
                      request_timeout |-> DictGet(config_data, "REQUEST_TIMEOUT", PyNum(60)),
                      api_key |-> api_key.v, api_secret |-> api_secret.v]
                 missing == MissingFields(ax_config, <<"api_key", "api_secret">>)
             IN  IF missing # <<>>
                 THEN ValueError("Axonius configuration missing required field", missing[1])
                 ELSE IF ~Truthy(ax_config.device_fields)
                      THEN Ok(PyDict([ax_config EXCEPT !.device_fields = FallbackDeviceFields]))
                 ELSE Ok(PyDict(ax_config))

\* get_elasticsearch_config(): the dictionary, or the exception raised
get_elasticsearch_config(environ, config_data) ==
    LET api_key == get_env_var(environ, "ES_API_KEY", PyNone, TRUE)
        cloud_id == get_env_var(environ, "ES_CLOUD_ID", PyNone, TRUE)
    IN  IF api_key.st = "raise" THEN api_key
        ELSE IF cloud_id.st = "raise" THEN cloud_id
        ELSE LET es_config ==
                     [url |-> DictGet(config_data, "ES_URL", PyNone),
                      index |-> DictGet(config_data, "ES_INDEX", PyNone),
                      pipeline |-> DictGet(config_data, "ES_PIPELINE", PyNone),
                      api_key |-> api_key.v, cloud_id |-> cloud_id.v]
                 missing == MissingFields(es_config, <<"url", "index", "api_key", "cloud_id">>)
             IN  IF missing # <<>>
                 THEN ValueError("Elasticsearch configuration missing required field", missing[1])
                 ELSE Ok(PyDict(es_config))

ConfigInit ==
    /\ fnArg \in [environ : Environs, config_data : YamlData]
    /\ fnResult = <<>>
    /\ fnPc = "call"

\* self.get_env_var(var_name, required=required)
CallGetEnvVar ==
    /\ fnPc = "call"
    /\ \E var_name \in SecretNames, required \in BOOLEAN :
           fnResult' = [call |-> "get_env_var", var_name |-> var_name, required |-> required,
                        out |-> get_env_var(fnArg.environ, var_name, PyNone, required)]
    /\ fnPc' = "returned"
    /\ UNCHANGED fnArg
    /\ UNCHANGED <<pagVars, mainVars, sinkVars, withVars, recVars>>

\* self.get_axonius_config()
CallGetAxoniusConfig ==
    /\ fnPc = "call"
    /\ fnResult' = [call |-> "get_axonius_config", var_name |-> "", required |-> TRUE,
                    out |-> get_axonius_config(fnArg.environ, fnArg.config_data)]
    /\ fnPc' = "returned"
    /\ UNCHANGED fnArg
    /\ UNCHANGED <<pagVars, mainVars, sinkVars, withVars, recVars>>

\* self.get_elasticsearch_config()
CallGetElasticsearchConfig ==
    /\ fnPc = "call"
    /\ fnResult' = [call |-> "get_elasticsearch_config", var_name |-> "", required |-> TRUE,
                    out |-> get_elasticsearch_config(fnArg.environ, fnArg.config_data)]
    /\ fnPc' = "returned"
    /\ UNCHANGED fnArg
    /\ UNCHANGED <<pagVars, mainVars, sinkVars, withVars, recVars>>

----------------------------------------------------------------------------
(* Specifications *)

\* the variables of main while another part runs
MainUnused ==
    /\ env = [globals_bound |-> TRUE, es_conn |-> "ok", discovery |-> "ready",
              assets_error |-> FALSE, assets |-> <<>>,
              sink |-> CHOOSE a \in SinkAnswers : a.ping = "false",
              platform |-> DefaultPlatform]
    /\ mainPc = "Idle"
    /\ outcome = "none"
    /\ formatted_data = <<>>
    /\ elasticsearch_docs = <<>>
    /\ fetch_ran = FALSE
    /\ sink = SinkIdle

\* the variables of get_all_assets while another part runs
PagUnused ==
    /\ api = ExampleApi
    /\ args = ExampleArgs
    /\ all_assets = <<>>
    /\ offset = 0
    /\ pc = "returned"
    /\ requests = <<>>
    /\ pages = <<>>
    /\ stop = "none"

\* the variables of the sink writer, the with statement, the record pass and
\* the normalizer call while another part runs
SinkUnused ==
    /\ sinkDocs = <<>>
    /\ index_exists = FALSE
    /\ sinkPc = "returned"
    /\ sinkResult = "none"
    /\ sinkLog = SinkLogIdle
WithUnused ==
    /\ session = "none"
    /\ withPc = "left"
    /\ exit_called = FALSE
    /\ propagating = FALSE
RecUnused ==
    /\ rawBatch = <<>>
    /\ formattedBatch = <<>>
    /\ mappedDocs = <<>>
    /\ recPc = "mapped"
    /\ utcnow = Now
FnUnused ==
    /\ fnArg = PyNone
    /\ fnResult = <<>>
    /\ fnPc = "returned"

Init == PagInit /\ MainUnused /\ SinkUnused /\ WithUnused /\ RecUnused /\ FnUnused
Next == LoopExit \/ FetchError \/ FetchEmpty \/ FetchPage
Spec == Init /\ [][Next]_vars

\* get_all_assets runs in one thread and every get_assets call returns or
\* raises (the request carries a timeout): an iteration that can be taken is
\* taken
Fairness == WF_vars(Next)
SpecFair == Spec /\ Fairness

InitMain == MainInit /\ PagUnused /\ SinkUnused /\ WithUnused /\ RecUnused /\ FnUnused
NextMain == MainEsConn \/ MainFetch \/ MainMapAndWrite
SpecMain == InitMain /\ [][NextMain]_vars

InitSink == SinkInit /\ PagUnused /\ MainUnused /\ WithUnused /\ RecUnused /\ FnUnused
NextSink ==
    \/ SinkNoDocuments \/ SinkPingRaises \/ SinkPingFalse \/ SinkPingOk
    \/ SinkExistsCheck \/ SinkExistsRaises \/ OtherProcessCreates
    \/ SinkCreate \/ SinkCreateRaises
    \/ SinkBulkReturns \/ SinkBulkRaises
SpecSink == InitSink /\ [][NextSink]_vars

InitWith == WithInit /\ PagInit /\ MainUnused /\ SinkUnused /\ RecUnused /\ FnUnused
NextWith == EnterReturns \/ EnterRaises \/ BodyStep \/ BodyRaises \/ BodyEnds
SpecWith == InitWith /\ [][NextWith]_vars

InitRecords == RecInit /\ PagUnused /\ MainUnused /\ SinkUnused /\ WithUnused /\ FnUnused
NextRecords == FormatRecords \/ MapRecords
SpecRecords == InitRecords /\ [][NextRecords]_vars

InitIps == IpInit /\ PagUnused /\ MainUnused /\ SinkUnused /\ WithUnused /\ RecUnused
NextIps == CallNormalizeIps
SpecIps == InitIps /\ [][NextIps]_vars

InitMacs == MacInit /\ PagUnused /\ MainUnused /\ SinkUnused /\ WithUnused /\ RecUnused
NextMacs == CallNormalizeMacs
SpecMacs == InitMacs /\ [][NextMacs]_vars

InitLastSeen == LastSeenInit /\ PagUnused /\ MainUnused /\ SinkUnused /\ WithUnused /\ RecUnused
NextLastSeen == CallFormatLastSeen \/ CallFormatLastSeenAgain
SpecLastSeen == InitLastSeen /\ [][NextLastSeen]_vars

InitConfig == ConfigInit /\ PagUnused /\ MainUnused /\ SinkUnused /\ WithUnused /\ RecUnused
NextConfig == CallGetEnvVar \/ CallGetAxoniusConfig \/ CallGetElasticsearchConfig
SpecConfig == InitConfig /\ [][NextConfig]_vars

----------------------------------------------------------------------------
(* Claims about get_all_assets, under Spec *)

\* the records of pages 1..k, in order
RECURSIVE Concat(_, _)
Concat(ps, k) == IF k = 0 THEN <<>> ELSE Concat(ps, k - 1) \o ps[k]
Received(k) == Len(Concat(pages, k))
AllReceived == Concat(pages, Len(pages))

ExampleRun == api = ExampleApi /\ args = ExampleArgs

\* C1: every page request asks for min(batch_size, ceiling - records received
\* so far); with batch size 100 and ceiling 250 and two full pages of 100 the
\* third request asks for 50, and when that page is full too the run makes
\* exactly three requests and ends by the ceiling test.
C1_LimitIsMinOfBatchAndRemaining ==
    /\ \A k \in 1..Len(requests) :
         requests[k].limit = Min(api.batch_size, MaxRecords - Received(k - 1))
    /\ (ExampleRun /\ Len(requests) >= 3 /\ Len(pages[1]) = 100 /\ Len(pages[2]) = 100)
         => requests[3].limit = 50
    /\ (ExampleRun /\ pc = "returned" /\ Len(pages) = 3
          /\ Len(pages[1]) = 100 /\ Len(pages[2]) = 100 /\ Len(pages[3]) >= 50)
         => stop = "ceiling" /\ Len(requests) = 3

C1_Witness ==
    /\ ExampleRun /\ pc = "returned" /\ stop = "ceiling"
    /\ Len(requests) = 3 /\ requests[3].limit = 50
    /\ Len(pages) = 3 /\ Len(pages[1]) = 100 /\ Len(pages[2]) = 100 /\ Len(pages[3]) = 50

\* C2: the offset of the k-th request is the number of records received in
\* fetches 1..k-1: it starts at 0, advances by what was received, and never
\* decreases; pages of 100, 100, 50 under batch size 100 and ceiling 250 are
\* fetched by exactly three requests at offsets 0, 100, 200 and give 250 records.
C2_OffsetIsRecordsReceived ==
    /\ \A k \in 1..Len(requests) : requests[k].offset = Received(k - 1)
    /\ offset = Received(Len(pages))
    /\ \A k \in 1..(Len(requests) - 1) : requests[k].offset <= requests[k + 1].offset
    /\ (ExampleRun /\ pc = "returned" /\ Len(pages) = 3
          /\ Len(pages[1]) = 100 /\ Len(pages[2]) = 100 /\ Len(pages[3]) = 50)
         => /\ Len(requests) = 3
            /\ requests[1].offset = 0 /\ requests[2].offset = 100 /\ requests[3].offset = 200
            /\ Len(all_assets) = 250

C2_Witness ==
    /\ ExampleRun /\ pc = "returned"
    /\ Len(pages) = 3 /\ Len(pages[1]) = 100 /\ Len(pages[2]) = 100 /\ Len(pages[3]) = 50
    /\ requests[3].offset = 200 /\ Len(all_assets) = 250

\* C3 (as claimed): whatever the source answers, get_all_assets never holds
\* more than max_records records.
C3_NeverMoreThanCeiling == Len(all_assets) <= MaxRecords

\* C4: when a fetch raises, get_all_assets returns (the error does not leave
\* it) exactly the records of the pages fetched before, and the failed request
\* is the last one issued.
C4_ErrorReturnsPartialData ==
    stop = "error" =>
        /\ pc = "returned"
        /\ all_assets = AllReceived
        /\ Len(requests) = Len(pages) + 1

C4_Witness == stop = "error" /\ pc = "returned" /\ Len(pages) >= 1 /\ all_assets # <<>>

\* C5: a page that is not empty but shorter than the requested limit is
\* appended and ends the run: it is the last page, no request follows it, and
\* its records are part of what is returned.
C5_ShortPageAppendedThenStop ==
    /\ \A k \in 1..Len(pages) :
         Len(pages[k]) < requests[k].limit =>
             /\ k = Len(pages) /\ Len(requests) = k
             /\ pc = "returned" /\ stop = "short"
             /\ Len(pages[k]) >= 1
             /\ all_assets = Concat(pages, k - 1) \o pages[k]
    /\ stop = "short" => Len(pages) >= 1 /\ Len(pages[Len(pages)]) < requests[Len(pages)].limit

C5_Witness ==
    /\ stop = "short" /\ pc = "returned" /\ Len(pages) >= 2
    /\ SubSeq(all_assets, Len(all_assets) - Len(pages[Len(pages)]) + 1, Len(all_assets))
         = pages[Len(pages)]

----------------------------------------------------------------------------
(* Claims about main, under SpecMain *)

\* the documents the mapper makes of formatted_data when it is called as declared
WouldMap == transform_data_for_elasticsearch(formatted_data, IndexName, Now)

\* the sink writer would raise before it has an outcome
SinkWouldRaise ==
    \/ env.sink.ping = "raises"
    \/ env.sink.ping = "ok" /\ ~env.sink.exists /\ env.sink.create = "raises"
    \/ env.sink.ping = "ok" /\ (env.sink.exists \/ env.sink.create = "ok") /\ env.sink.bulk_raises

\* C7 (as claimed): main ends Aborted when the readiness check reports
\* not-ready, when the fetch stage yields no record, when the mapper yields
\* no document, and when the sink writer raises before returning an outcome.
C7_AbortedCases ==
    (mainPc = "Ended" /\ fetch_ran) =>
        ((\/ env.discovery = "not_ready"
          \/ formatted_data = <<>>
          \/ WouldMap = <<>>
          \/ SinkWouldRaise)
         => outcome = "Aborted")

\* C8: when the source returns no raw asset the fetch stage returns an empty
\* sequence and main ends Aborted; the sink writer (index ensure, bulk write)
\* is not invoked in a run whose fetch stage or mapping stage produced nothing.
C8_NothingFetchedNoSink ==
    /\ (fetch_ran /\ env.assets = <<>>) => formatted_data = <<>>
    /\ (fetch_ran /\ formatted_data = <<>>) => mainPc = "Ended" /\ outcome = "Aborted"
    /\ (formatted_data = <<>> \/ elasticsearch_docs = <<>>)
         => ~sink.invoked /\ ~sink.ensured /\ ~sink.created /\ ~sink.bulk_called

C8_Witness ==
    /\ mainPc = "Ended" /\ outcome = "Aborted" /\ fetch_ran
    /\ env.discovery = "ready" /\ ~env.assets_error /\ env.assets = <<>>
    /\ ~sink.invoked

\* C9 (as claimed): when fetch and mapping give at least one document and the
\* bulk write reports some documents succeeded and some failed, main ends Done
\* and the number of failures is in the write outcome.
C9_PartialWriteEndsDone ==
    (/\ mainPc = "Ended" /\ fetch_ran
     /\ env.sink.ping = "ok" /\ ~SinkWouldRaise
     /\ env.sink.failed >= 1 /\ env.sink.failed < Len(WouldMap))
    => outcome = "Done" /\ sink.bulk_called /\ sink.failed_count = env.sink.failed

\* C10 (as claimed): no exception leaves main.
C10_NoExceptionLeavesMain == outcome # "Raised"

----------------------------------------------------------------------------
(* Claims about bulk_index_to_elasticsearch, under SpecSink *)

\* bulk() came back with an outcome
BulkReturned == sinkLog.bulk_called /\ ~sinkLog.bulk_raised

\* C11 (as claimed): the call reports failure exactly when no document
\* succeeded or the write call raised: an outcome of bulk() with a success
\* count of zero is reported as failure, one with at least one success as
\* success.
C11_FailsExactlyWhenNothingWritten ==
    sinkPc = "returned" =>
        /\ (sinkResult = "False") <=> (sinkLog.success_count = 0 \/ sinkLog.bulk_raised)
        /\ (BulkReturned /\ sinkLog.success_count = 0) => sinkResult = "False"
        /\ (BulkReturned /\ sinkLog.success_count >= 1) => sinkResult = "True"

\* C12 (as claimed): an index that exists is not created again, and when
\* another process creates the index between the existence check and the
\* create call, the "already exists" answer counts as success and the bulk
\* write goes on.
C12_EnsureToleratesRace ==
    /\ sinkLog.exists = "true" => sinkLog.create = "none"
    /\ sinkLog.create = "already_exists" =>
           /\ sinkResult # "False"
           /\ sinkPc = "writing" \/ sinkLog.bulk_called

----------------------------------------------------------------------------
(* Claims about the context manager, under SpecWith *)

\* C13 (as claimed): once the with statement is left, by any path, no session
\* that was opened is still open.
C13_SessionReleasedOnEveryPath == withPc = "left" => session # "open"

----------------------------------------------------------------------------
(* Claims about the records, under SpecMain and SpecRecords *)

\* a record has a hostname or an IP address
Viable(r) == Truthy(r.hostname) \/ r.ip_addresses # <<>>

\* C14 (as claimed): every record the record-formatting stage emits has a
\* hostname or an IP address; a raw record that keeps neither is in no output.
C14_EmittedRecordsViable ==
    \A i \in DOMAIN formatted_data : Viable(formatted_data[i])

\* a raw record whose field extraction does not raise
ExtractionSucceeds(asset) == ~FormatRaises(asset)

\* the raw records that format to a record
FormatsToRecord(asset) == FormatOne(asset, DefaultPlatform) # <<>>

\* C15: format_axonius_data returns for every batch; a record whose field
\* extraction raises is dropped alone: the result is what the batch without
\* the raising records gives, one record for each raw record that formats to
\* one, in the order of the batch.
C15_MalformedRecordDroppedAlone ==
    (recPc = "formatted" /\ rawBatch # <<>>) =>
        LET rest == SelectSeq(rawBatch, ExtractionSucceeds)
            kept == SelectSeq(rawBatch, FormatsToRecord)
        IN  /\ formattedBatch = format_axonius_data(rest, DefaultPlatform)
            /\ Len(formattedBatch) = Len(kept)
            /\ \A i \in DOMAIN kept : <<formattedBatch[i]>> = FormatOne(kept[i], DefaultPlatform)
            /\ \A i \in DOMAIN formattedBatch : Viable(formattedBatch[i])

C15_Witness ==
    /\ recPc = "formatted" /\ Len(rawBatch) = 2
    /\ FormatRaises(rawBatch[1]) /\ FormatsToRecord(rawBatch[2])
    /\ formattedBatch = FormatOne(rawBatch[2], DefaultPlatform)

\* the raw assets that hold a hostname and an adapter last_seen, and what
\* their two paths hold
SeenSamples ==
    {RawPrimaryDate, RawPrimaryAbsent, RawPrimaryNull, RawPrimaryEmpty, RawPrimaryZero,
     RawPrimaryGarbage}
PrimaryCarriesValue(asset) ==
    /\ "last_seen" \in DOMAIN asset.d.specific_data.d.data.d
    /\ asset.d.specific_data.d.data.d.last_seen # PyNone
PrimaryValue(asset) == DictGet(asset.d.specific_data.d.data, "last_seen", PyNone)
AdapterValue(asset) == asset.d.adapters_data.d.axonius_adapter.d.last_seen
Formatted(x) == format_last_seen_date(x, DefaultPlatform)
AllSeenSamples == rawBatch # <<>> /\ \A i \in DOMAIN rawBatch : rawBatch[i] \in SeenSamples

\* C16 (as claimed): when the primary path carries a value, be it empty, zero
\* or unparseable, last_seen is made of that value and the adapter's is not used.
C16_AdapterOnlyWhenPrimaryAbsent ==
    (recPc = "formatted" /\ AllSeenSamples) =>
        \A i \in DOMAIN rawBatch :
            PrimaryCarriesValue(rawBatch[i])
                => formattedBatch[i].last_seen = Formatted(PrimaryValue(rawBatch[i]))

\* C16 (amended): last_seen is made of the primary value when that value is
\* true in Python's sense, parseable or not; when it is absent, null, empty or
\* zero, last_seen is made of the adapter's value.
C16_AdapterWhenPrimaryFalse ==
    (recPc = "formatted" /\ AllSeenSamples) =>
        /\ Len(formattedBatch) = Len(rawBatch)
        /\ \A i \in DOMAIN rawBatch :
              formattedBatch[i].last_seen =
                  IF Truthy(PrimaryValue(rawBatch[i]))
                  THEN Formatted(PrimaryValue(rawBatch[i]))
                  ELSE Formatted(AdapterValue(rawBatch[i]))

C16_Witness ==
    /\ recPc = "formatted"
    /\ rawBatch = <<RawPrimaryEmpty, RawPrimaryGarbage>>
    /\ formattedBatch[1].last_seen = Formatted(PyStr(Chars_Date2))
    /\ formattedBatch[2].last_seen = PyNone

\* C17: the mapper makes one document of each record with a hostname or an
\* IP address; its timestamp is the record's last_seen when there is one and
\* the time of mapping otherwise, its ingestion_time is the time of mapping
\* whatever last_seen is, and its axonius.last_seen is the record's last_seen
\* (None stays None).
C17_MapperTimestamps ==
    recPc = "mapped" =>
        LET kept == SelectSeq(formattedBatch, Viable)
        IN  /\ Len(mappedDocs) = Len(kept)
            /\ \A i \in DOMAIN kept :
                 /\ mappedDocs[i].source.timestamp =
                        IF kept[i].last_seen # PyNone THEN kept[i].last_seen ELSE PyStr(utcnow)
                 /\ mappedDocs[i].source.axonius.ingestion_time = PyStr(utcnow)
                 /\ mappedDocs[i].source.axonius.last_seen = kept[i].last_seen

C17_Witness ==
    /\ recPc = "mapped" /\ utcnow = Later /\ Len(mappedDocs) = 2
    /\ formattedBatch[1].last_seen # PyNone /\ formattedBatch[2].last_seen = PyNone
    /\ mappedDocs[1].source.timestamp = formattedBatch[1].last_seen
    /\ mappedDocs[1].source.axonius.ingestion_time = PyStr(Later)
    /\ mappedDocs[2].source.timestamp = PyStr(Later)
    /\ mappedDocs[2].source.axonius.last_seen = PyNone

Chars_host01 == <<"h", "o", "s", "t", "-", "0", "1">>

\* C18 (as claimed): the mapper makes of the canonical record with hostname
\* "HOST-01 " and no IP address exactly one document, with host.hostname
\* "host-01" and host.ip null.
C18_MapperNormalizesHostname ==
    (recPc = "mapped" /\ formattedBatch = <<CanonUpperHost>>) =>
        /\ Len(mappedDocs) = 1
        /\ mappedDocs[1].source.host.hostname = PyStr(Chars_host01)
        /\ mappedDocs[1].source.host.ip = PyNone

\* C18 (amended): the raw record with hostname "HOST-01 " and no IP address,
\* passed through the record formatter and then the mapper, gives exactly one
\* document, with host.hostname "host-01" (lowercase, characters of
\* [a-z0-9.-]) and host.ip null; the mapper itself copies the hostname of the
\* record it is given.
C18_FormatterNormalizesMapperCopies ==
    recPc = "mapped" =>
        /\ rawBatch = <<NestedViable>> =>
              /\ Len(mappedDocs) = 1
              /\ mappedDocs[1].source.host.hostname = PyStr(Chars_host01)
              /\ mappedDocs[1].source.host.ip = PyNone
        /\ LET kept == SelectSeq(formattedBatch, Viable)
           IN  /\ Len(mappedDocs) = Len(kept)
               /\ \A i \in DOMAIN kept :
                     mappedDocs[i].source.host.hostname = kept[i].hostname
        /\ \A i \in DOMAIN formattedBatch :
              (rawBatch # <<>> /\ formattedBatch[i].hostname # PyNone) =>
                  \A j \in DOMAIN formattedBatch[i].hostname.s :
                      LET c == formattedBatch[i].hostname.s[j]
                      IN  IsLowerLetter(c) \/ IsDigit(c) \/ c \in {".", "-"}

C18_Witness ==
    /\ recPc = "mapped" /\ rawBatch = <<NestedViable>>
    /\ Len(mappedDocs) = 1
    /\ mappedDocs[1].source.host.hostname = PyStr(Chars_host01)
    /\ mappedDocs[1].source.host.ip = PyNone

----------------------------------------------------------------------------
(* Claims about the normalizers, under SpecIps and SpecMacs *)

\* the sequence normalize_ip_addresses is given: a string counts as the list
\* of that one string
IpSequence(x) == IF x.t = "str" THEN <<x>> ELSE IF x.t = "list" THEN x.l ELSE <<>>

\* a string that matches the dotted-quad pattern once trimmed
MatchingIp(e) == e.t = "str" /\ MatchesIPv4(Strip(e.s))

\* C19: the result of normalize_ip_addresses is the subsequence of the
\* elements that are strings matching \d{1,3}(\.\d{1,3}){3} once trimmed, each
\* in its trimmed form and in the order of the input; every other element is
\* left out and nothing is added.
C19_IpFilterKeepsOrder ==
    fnPc = "returned" =>
        LET kept == SelectSeq(IpSequence(fnArg), MatchingIp)
        IN  /\ Len(fnResult) = Len(kept)
            /\ \A i \in DOMAIN kept : fnResult[i] = Strip(kept[i].s)
            /\ \A i \in DOMAIN fnResult : MatchesIPv4(fnResult[i])

C19_Witness ==
    /\ fnPc = "returned"
    /\ fnArg = PyList(<<PyStr(Chars_IpPadded), PyStr(Chars_Ip2)>>)
    /\ fnResult = <<Chars_Ip, Chars_Ip2>>

\* the characters of a string that are no separator (':', '-', whitespace),
\* in lowercase
NoSeparator(c) == c \notin {":", "-", " ", "\t", "\n"}
HexDigitsOf(s) == Lower(SelectSeq(s, NoSeparator))
TwelveHex(s) == Len(s) = 12 /\ \A i \in DOMAIN s : s[i] \in Range(Digits) \cup {"a", "b", "c", "d", "e", "f"}

\* C20: the result of normalize_mac_addresses for a string depends only on
\* its characters that are no separator, whatever their case: when these are
\* twelve hexadecimal digits the result is the one address
\* xx:xx:xx:xx:xx:xx in lowercase, otherwise the result is empty.
C20_MacSeparatorInsensitive ==
    (fnPc = "returned" /\ fnArg.t = "str") =>
        fnResult = IF TwelveHex(HexDigitsOf(fnArg.s))
                   THEN <<Grouped(HexDigitsOf(fnArg.s), 2, ":")>>
                   ELSE <<>>

C20_Witness ==
    /\ fnPc = "returned" /\ fnArg.t = "str"
    /\ \E i, j \in DOMAIN fnArg.s : fnArg.s[i] = "-" /\ fnArg.s[j] = " " /\ i < j /\ j < Len(fnArg.s)
    /\ \E i \in DOMAIN fnArg.s : fnArg.s[i] = "A"
    /\ fnResult = <<Grouped(Chars_MacLower, 2, ":")>>


----------------------------------------------------------------------------
(* Claims about format_last_seen_date, under SpecLastSeen *)

\* C21: format_last_seen_date is idempotent on its own output: whenever the
\* first call parses its input (returns a string), the second call, on that
\* string, returns the same string.
\* Violated: where strftime does not pad %Y, a year below 1000 is written
\* with fewer than four digits, which %Y of strptime does not read.
C21_IdempotentOnOwnOutput ==
    (fnPc = "again" /\ fnResult[1] # PyNone) => fnResult[2] = fnResult[1]


----------------------------------------------------------------------------
(* Claims about ConfigLoader, under SpecConfig *)

\* the variable is unset, empty or left as the placeholder
Unusable(name) == fnArg.environ[name] \in {PyNone, PyStr(<<>>), PyStr(Chars_Placeholder)}

\* the call raised an error that names one of the unusable variables of names
RaisedNaming(names) ==
    /\ fnResult.out.st = "raise"
    /\ fnResult.out.v.name \in {name \in names : Unusable(name)}

\* C22: configuration fails fast. For each required secret that is unset,
\* empty or equal to "NOTSETYET", get_env_var raises an error naming the
\* variable, and get_axonius_config / get_elasticsearch_config return no
\* configuration (the error leaves them); a non-required variable set to the
\* placeholder gives None, not the placeholder.
C22_ConfigFailsFast ==
    fnPc = "returned" =>
        /\ (fnResult.call = "get_env_var" /\ fnResult.required /\ Unusable(fnResult.var_name))
               => RaisedNaming({fnResult.var_name})
        /\ (fnResult.call = "get_env_var" /\ ~fnResult.required
                /\ fnArg.environ[fnResult.var_name] = PyStr(Chars_Placeholder))
               => fnResult.out = Ok(PyNone)
        /\ (fnResult.call = "get_axonius_config"
                /\ (Unusable("AX_API_KEY") \/ Unusable("AX_API_SECRET")))
               => RaisedNaming({"AX_API_KEY", "AX_API_SECRET"})
        /\ (fnResult.call = "get_elasticsearch_config"
                /\ (Unusable("ES_API_KEY") \/ Unusable("ES_CLOUD_ID")))
               => RaisedNaming({"ES_API_KEY", "ES_CLOUD_ID"})

\* get_axonius_config with a usable key and the placeholder as secret raises,
\* naming AX_API_SECRET
C22_Witness ==
    /\ fnPc = "returned"
    /\ fnResult.call = "get_axonius_config"
    /\ fnArg.environ["AX_API_KEY"] = PyStr(Chars_Secret)
    /\ fnArg.environ["AX_API_SECRET"] = PyStr(Chars_Placeholder)
    /\ fnArg.config_data = YamlComplete
    /\ fnResult.out.st = "raise"
    /\ fnResult.out.v.name = "AX_API_SECRET"


----------------------------------------------------------------------------
(* Further claims about get_assets and get_all_assets, under Spec *)

\* the fields configured for the asset type of the run
ConfiguredFields ==
    IF args.asset_type = "devices" THEN api.device_fields
    ELSE IF args.asset_type = "users" THEN api.user_fields
    ELSE <<>>

\* C23: a fields list passed by the caller overrides the configured defaults:
\* every request sends the caller's list when one was passed, and the
\* configured fields of the asset type only when none was.
\* Violated: get_assets assigns `fields` from the configuration whatever the
\* caller passed.
C23_CallerFieldsOverride ==
    \A k \in DOMAIN requests :
        requests[k].fields = IF args.fields # PyNone THEN args.fields.l ELSE ConfiguredFields


\* the offsets requested, each greater than the one before
OffsetsIncrease == \A j, k \in DOMAIN requests : j < k => requests[j].offset < requests[k].offset

\* one iteration of the loop stops the run or adds at least one record
IterationProgresses == pc = "loop" => (pc' = "returned" \/ Len(all_assets') > Len(all_assets))

\* C24: get_all_assets terminates whatever the source answers: every run
\* reaches its return; each iteration stops the run or strictly increases
\* the number of accumulated records; a run with a positive ceiling makes at
\* most ceiling fetches, and no offset is requested twice.
C24_TerminatesWithinCeiling ==
    /\ <>(pc = "returned")
    /\ [][IterationProgresses]_vars
    /\ [](MaxRecords >= 1 => Len(requests) <= MaxRecords)
    /\ []OffsetsIncrease

\* a run that made as many fetches as its ceiling allows, one record each,
\* and returned by the ceiling
C24_Witness ==
    /\ pc = "returned"
    /\ stop = "ceiling"
    /\ MaxRecords >= 3
    /\ Len(requests) = MaxRecords
    /\ \A k \in DOMAIN requests : requests[k].offset = k - 1

====
